---- MODULE Spec2Model ----
(***************************************************************************)
(* Point-of-sale backend: the Sale entity (construction, derived totals,   *)
(* validation), the entity services (create / update / delete over a       *)
(* document store), the HTTP controllers that answer for them and the      *)
(* persistence gateway that connects them to the store.                    *)
(*                                                                         *)
(* Conventions of the model                                                *)
(*  - A JSON payload is a TLA+ record whose DOMAIN is the set of keys the  *)
(*    caller sent; a key that is absent reads as JavaScript `undefined`.   *)
(*  - Money is counted in whole currency units (integers).                 *)
(*  - `null` in a numeric field built by `x || null` is written Null (0):  *)
(*    `||` never lets a 0 through, so 0 is free to stand for null there.   *)
(*  - A Date is written [kind |-> "Date", t |-> n]; a date that came in as *)
(*    JSON text stays the value the caller sent.                           *)
(*  - Text that the code inspects character by character (e-mail, phone)   *)
(*    is a sequence of one-character strings.                              *)
(*                                                                         *)
(* Specifications                                                          *)
(*  - Spec: the sales routes (create, update, delete) of a running server. *)
(*  - SpecCrud: the create routes of the five services and the update      *)
(*    routes of sales, customers and suppliers.                            *)
(*  - SpecModel: one Sale taken through create, calculateTotals, validate. *)
(*  - SpecOps: creates, updates, deletes and reads by id or legacy id of   *)
(*    products, quantities, customers and sales, in any gateway state.     *)
(*  - SpecList: one list, search or analytics request answered over a      *)
(*    store of sales or customers built through the create methods.        *)
(*  - SpecEntity: a Sale, Customer or Supplier built or read from a        *)
(*    document, then written to a document and read back, or given items.  *)
(*  - SpecFrame: every route of customers, suppliers, sales and            *)
(*    quantities, one request at a time.                                   *)
(*  - SpecGateway: connect() calls and requests of several callers on      *)
(*    either DatabaseManager file; SpecServerless: on the serverless one.  *)
(*  - SpecRace: service calls of two callers whose store calls interleave. *)
(***************************************************************************)
EXTENDS Integers, Sequences, FiniteSets, TLC

VARIABLES
    isConnected,\* databaseManager.isConnected
    clock,      \* what Date.now() reads
    store,      \* the five collections: collection name -> (ObjectId -> document)
    nextOid,    \* the driver's ObjectId generator: the next _id it hands out
    request,    \* the request the last step handled: [op, coll, id, data], or NoRequest
    response,   \* the HTTP answer to it: [status, body], or NoResponse
    steps,      \* the lifecycle steps the service ran for it, in order (for a
                \* list request: the calls it made on the collection)
    sale,       \* an entity instance held in memory (entity-level behaviours)
    validation, \* the result of the last validate() on `sale`, or NoValidation
    manager,    \* the other fields of databaseManager: client, db, connectionPromise
    clients,    \* the MongoClients constructed so far, each with its connection's state
    calls,      \* the asynchronous calls in flight or settled, one per caller
    apiIsConnected \* the module-level isConnected of api/index.js

vars == <<isConnected, clock, store, nextOid, request, response, steps, sale, validation,
          manager, clients, calls, apiIsConnected>>

(***************************************************************************)
(* JavaScript value helpers                                                *)
(***************************************************************************)
Null == 0
NullStr == "<null>"

Has(data, key) == key \in DOMAIN data

\* data[key] || dflt, for a numeric key: undefined and 0 are falsy
NumOr(data, key, dflt) == IF Has(data, key) /\ data[key] # 0 THEN data[key] ELSE dflt

\* data[key] || dflt, for a string key: undefined and '' are falsy
StrOr(data, key, dflt) == IF Has(data, key) /\ data[key] # "" THEN data[key] ELSE dflt

\* data[key] || dflt, for an array or a Date: only undefined is falsy
ObjOr(data, key, dflt) == IF Has(data, key) THEN data[key] ELSE dflt

\* new Date() at clock reading t
DateAt(t) == [kind |-> "Date", t |-> t]
NullDate == [kind |-> "null"]

\* s.trim() === '' over the strings of the model
BlankStrings == {"", " ", "  "}
IsBlank(s) == s \in BlankStrings

\* errors.join(', ')
RECURSIVE Join(_)
Join(errors) ==
    IF errors = <<>> THEN ""
    ELSE IF Len(errors) = 1 THEN errors[1]
    ELSE errors[1] \o ", " \o Join(Tail(errors))

\* a record with the keys of `extra` laid over `base` ({...base, ...extra})
Spread(base, extra) == extra @@ base

(***************************************************************************)
(* Sale (src/src/models/Sale.js)                                           *)
(***************************************************************************)
\* new Sale(data)
Sale_constructor(data, now) ==
    [ id              |-> NumOr(data, "id", Null),
      mysqlId         |-> NumOr(data, "mysqlId", Null),
      saleId          |-> StrOr(data, "saleId", ""),
      customerId      |-> NumOr(data, "customerId", Null),
      customerContact |-> StrOr(data, "customerContact", ""),
      saleItems       |-> ObjOr(data, "saleItems", <<>>),
      subTotal        |-> NumOr(data, "subTotal", 0),
      taxAmount       |-> NumOr(data, "taxAmount", 0),
      discountAmount  |-> NumOr(data, "discountAmount", 0),
      totalAmount     |-> NumOr(data, "totalAmount", 0),
      paidAmount      |-> NumOr(data, "paidAmount", 0),
      changeAmount    |-> NumOr(data, "changeAmount", 0),
      paymentMethod   |-> StrOr(data, "paymentMethod", ""),
      saleDate        |-> ObjOr(data, "saleDate", DateAt(now)),
      timestamp       |-> NumOr(data, "timestamp", now) ]

\* the keys Sale.create copies from the caller's data (id is not one of them)
SaleCreateKeys ==
    {"mysqlId", "saleId", "customerId", "customerContact", "saleItems", "subTotal",
     "taxAmount", "discountAmount", "totalAmount", "paidAmount", "changeAmount",
     "paymentMethod", "saleDate"}

\* Sale.create(data): timestamp is always Date.now()
Sale_create(data, now) ==
    Sale_constructor(
        Spread([k \in (DOMAIN data) \cap SaleCreateKeys |-> data[k]],
               [timestamp |-> now]),
        now)

\* item.subTotal || (item.quantity * item.unitPrice)
ItemAmount(item) ==
    IF Has(item, "subTotal") /\ item.subTotal # 0
    THEN item.subTotal
    ELSE item.quantity * item.unitPrice

\* saleItems.reduce((total, item) => total + ..., 0)
RECURSIVE SumItems(_)
SumItems(items) ==
    IF items = <<>> THEN 0
    ELSE ItemAmount(Head(items)) + SumItems(Tail(items))

\* sale.calculateTotals()
calculateTotals(s) ==
    LET sub   == SumItems(s.saleItems)
        total == sub + s.taxAmount - s.discountAmount
    IN  [s EXCEPT !.subTotal = sub,
                  !.totalAmount = total,
                  !.changeAmount = s.paidAmount - total]

\* the fields addItem copies from itemData
ItemKeys == {"mysqlId", "productId", "productName", "category", "quantity", "unitPrice"}

\* sale.addItem(itemData)
addItem(s, itemData) ==
    LET item == Spread([k \in (DOMAIN itemData) \cap ItemKeys |-> itemData[k]],
                       [subTotal |-> itemData.quantity * itemData.unitPrice])
    IN  calculateTotals([s EXCEPT !.saleItems = Append(s.saleItems, item)])

MsgSaleId == "Sale ID is required"
MsgNoItems == "Sale must have at least one item"
MsgNegativeTotal == "Total amount cannot be negative"
MsgUnderpaid == "Paid amount must be greater than or equal to total amount"

\* a validate() that stops at the first violated rule
Sale_validate_failFast(s) ==
    LET errors ==
            IF s.saleId = "" \/ IsBlank(s.saleId) THEN <<MsgSaleId>>
            ELSE IF Len(s.saleItems) = 0 THEN <<MsgNoItems>>
            ELSE IF s.totalAmount < 0 THEN <<MsgNegativeTotal>>
            ELSE IF s.paidAmount < s.totalAmount THEN <<MsgUnderpaid>>
            ELSE <<>>
    IN  [isValid |-> (Len(errors) = 0), errors |-> errors]

\* sale.validate()
Sale_validate(s) ==
    LET e1 == IF s.saleId = "" \/ IsBlank(s.saleId) THEN <<MsgSaleId>> ELSE <<>>
        e2 == IF Len(s.saleItems) = 0 THEN <<MsgNoItems>> ELSE <<>>
        e3 == IF s.totalAmount < 0 THEN <<MsgNegativeTotal>> ELSE <<>>
        e4 == IF s.paidAmount < s.totalAmount THEN <<MsgUnderpaid>> ELSE <<>>
        errors == e1 \o e2 \o e3 \o e4
    IN  [isValid |-> (Len(errors) = 0), errors |-> errors]

\* sale.toDocument(): every attribute but id
Sale_toDocument(s) ==
    [k \in (DOMAIN s) \ {"id"} |-> s[k]]

\* Sale.fromDocument(doc)
Sale_fromDocument(doc, now) ==
    Sale_constructor(
        Spread([k \in (DOMAIN doc) \ {"_id"} |-> doc[k]],
               IF Has(doc, "_id") THEN [id |-> doc._id] ELSE <<>>),
        now)

(***************************************************************************)
(* Customer (src/src/models/Customer.js)                                   *)
(***************************************************************************)
\* new Customer(data)
Customer_constructor(data, now) ==
    [ id          |-> NumOr(data, "id", Null),
      mysqlId     |-> NumOr(data, "mysqlId", Null),
      saleId      |-> StrOr(data, "saleId", NullStr),
      contact     |-> StrOr(data, "contact", ""),
      email       |-> ObjOr(data, "email", <<>>),
      createdDate |-> ObjOr(data, "createdDate", DateAt(now)),
      timestamp   |-> NumOr(data, "timestamp", now) ]

CustomerCreateKeys == {"mysqlId", "saleId", "contact", "email", "createdDate"}

\* Customer.create(data)
Customer_create(data, now) ==
    Customer_constructor(
        Spread([k \in (DOMAIN data) \cap CustomerCreateKeys |-> data[k]],
               [timestamp |-> now]),
        now)

\* /^[^\s@]+@[^\s@]+\.[^\s@]+$/.test(email)
isValidEmail(email) ==
    \E i, j \in DOMAIN email :
        /\ 1 < i /\ i + 1 < j /\ j < Len(email)
        /\ email[i] = "@"
        /\ email[j] = "."
        /\ \A k \in DOMAIN email : k # i => email[k] \notin {" ", "@"}

MsgContact == "Contact is required"
MsgEmail == "Invalid email format"

\* customer.validate()
Customer_validate(c) ==
    LET e1 == IF c.contact = "" \/ IsBlank(c.contact) THEN <<MsgContact>> ELSE <<>>
        e2 == IF c.email # <<>> /\ ~isValidEmail(c.email) THEN <<MsgEmail>> ELSE <<>>
        errors == e1 \o e2
    IN  [isValid |-> (Len(errors) = 0), errors |-> errors]

\* customer.toDocument()
Customer_toDocument(c) == [k \in (DOMAIN c) \ {"id"} |-> c[k]]

\* Customer.fromDocument(doc)
Customer_fromDocument(doc, now) ==
    Customer_constructor(
        Spread([k \in (DOMAIN doc) \ {"_id"} |-> doc[k]],
               IF Has(doc, "_id") THEN [id |-> doc._id] ELSE <<>>),
        now)

(***************************************************************************)
(* Supplier (src/src/models/Supplier.js)                                   *)
(***************************************************************************)
\* new Supplier(data)
Supplier_constructor(data, now) ==
    [ id            |-> NumOr(data, "id", Null),
      mysqlId       |-> NumOr(data, "mysqlId", Null),
      name          |-> StrOr(data, "name", ""),
      contact       |-> StrOr(data, "contact", ""),
      contactPerson |-> StrOr(data, "contactPerson", ""),
      phone         |-> ObjOr(data, "phone", <<>>),
      email         |-> ObjOr(data, "email", <<>>),
      address       |-> StrOr(data, "address", ""),
      createdDate   |-> ObjOr(data, "createdDate", DateAt(now)),
      timestamp     |-> NumOr(data, "timestamp", now) ]

SupplierCreateKeys ==
    {"mysqlId", "name", "contact", "contactPerson", "phone", "email", "address",
     "createdDate"}

\* Supplier.create(data)
Supplier_create(data, now) ==
    Supplier_constructor(
        Spread([k \in (DOMAIN data) \cap SupplierCreateKeys |-> data[k]],
               [timestamp |-> now]),
        now)

Digits == {"0", "1", "2", "3", "4", "5", "6", "7", "8", "9"}

\* /^[\+]?[1-9][\d]{0,15}$/.test(phone.replace(/[\s\-\(\)]/g, ''))
isValidPhone(phone) ==
    LET bare == SelectSeq(phone, LAMBDA ch : ch \notin {" ", "-", "(", ")"})
        body == IF bare # <<>> /\ Head(bare) = "+" THEN Tail(bare) ELSE bare
    IN  /\ Len(body) \in 1..16
        /\ body[1] \in Digits \ {"0"}
        /\ \A k \in DOMAIN body : body[k] \in Digits

MsgSupplierName == "Supplier name is required"
MsgSupplierContact == "Contact information is required"
MsgPhone == "Invalid phone number format"

\* supplier.validate()
Supplier_validate(sp) ==
    LET e1 == IF sp.name = "" \/ IsBlank(sp.name) THEN <<MsgSupplierName>> ELSE <<>>
        e2 == IF sp.contact = "" \/ IsBlank(sp.contact) THEN <<MsgSupplierContact>> ELSE <<>>
        e3 == IF sp.email # <<>> /\ ~isValidEmail(sp.email) THEN <<MsgEmail>> ELSE <<>>
        e4 == IF sp.phone # <<>> /\ ~isValidPhone(sp.phone) THEN <<MsgPhone>> ELSE <<>>
        errors == e1 \o e2 \o e3 \o e4
    IN  [isValid |-> (Len(errors) = 0), errors |-> errors]

\* supplier.toDocument()
Supplier_toDocument(sp) == [k \in (DOMAIN sp) \ {"id"} |-> sp[k]]

\* Supplier.fromDocument(doc)
Supplier_fromDocument(doc, now) ==
    Supplier_constructor(
        Spread([k \in (DOMAIN doc) \ {"_id"} |-> doc[k]],
               IF Has(doc, "_id") THEN [id |-> doc._id] ELSE <<>>),
        now)

(***************************************************************************)
(* Product (src/src/utils/helpers.js, second half).  A price, discount or  *)
(* tax is written as the number parseFloat reads from it; '0.00' is 0.     *)
(***************************************************************************)
\* new Product(data)
Product_constructor(data, now) ==
    [ id           |-> NumOr(data, "id", Null),
      mysqlId      |-> NumOr(data, "mysqlId", NumOr(data, "mysql_id", Null)),
      name         |-> StrOr(data, "name", ""),
      barcode      |-> StrOr(data, "barcode", ""),
      discount     |-> NumOr(data, "discount", 0),
      tax          |-> NumOr(data, "tax", 0),
      salePrice    |-> NumOr(data, "salePrice", NumOr(data, "sale_price", 0)),
      category     |-> StrOr(data, "category", ""),
      expireDate   |-> ObjOr(data, "expireDate", ObjOr(data, "expire_date", NullDate)),
      supplierId   |-> NumOr(data, "supplierId", NumOr(data, "supplier_id", Null)),
      supplierName |-> StrOr(data, "supplierName", StrOr(data, "supplier_name", "")),
      createdDate  |-> ObjOr(data, "createdDate", ObjOr(data, "created_date", DateAt(now))) ]

ProductCreateKeys ==
    {"mysqlId", "name", "barcode", "discount", "tax", "salePrice", "category",
     "expireDate", "supplierId", "supplierName", "createdDate"}

\* Product.create(data)
Product_create(data, now) ==
    Product_constructor([k \in (DOMAIN data) \cap ProductCreateKeys |-> data[k]], now)

MsgProductName == "Product name is required"
MsgBarcode == "Barcode is required"
MsgSalePrice == "Sale price must be non-negative"

\* product.validate(): salePrice is never falsy here, the constructor put '0.00'
Product_validate(pr) ==
    LET e1 == IF pr.name = "" \/ IsBlank(pr.name) THEN <<MsgProductName>> ELSE <<>>
        e2 == IF pr.barcode = "" \/ IsBlank(pr.barcode) THEN <<MsgBarcode>> ELSE <<>>
        e3 == IF pr.salePrice < 0 THEN <<MsgSalePrice>> ELSE <<>>
        errors == e1 \o e2 \o e3
    IN  [isValid |-> (Len(errors) = 0), errors |-> errors]

\* product.toDocument()
Product_toDocument(pr) == [k \in (DOMAIN pr) \ {"id"} |-> pr[k]]

\* Product.fromDocument(doc)
Product_fromDocument(doc, now) ==
    Product_constructor(
        Spread([k \in (DOMAIN doc) \ {"_id"} |-> doc[k]],
               IF Has(doc, "_id") THEN [id |-> doc._id] ELSE <<>>),
        now)

(***************************************************************************)
(* Quantity (src/src/models/Quantity.js)                                   *)
(***************************************************************************)
\* new Quantity(data)
Quantity_constructor(data, now) ==
    [ id             |-> NumOr(data, "id", Null),
      productMysqlId |-> NumOr(data, "productMysqlId",
                         NumOr(data, "product_mysql_id",
                         NumOr(data, "productId",
                         NumOr(data, "product_id", Null)))),
      quantitySize   |-> NumOr(data, "quantitySize", NumOr(data, "quantity_size", 0)),
      createdDate    |-> ObjOr(data, "createdDate", ObjOr(data, "created_date", DateAt(now))),
      updatedDate    |-> ObjOr(data, "updatedDate", ObjOr(data, "updated_date", DateAt(now))) ]

\* Quantity.create(data)
Quantity_create(data, now) ==
    Quantity_constructor(
        Spread([k \in (DOMAIN data) \cap {"quantitySize", "createdDate", "updatedDate"}
                   |-> data[k]],
               [productMysqlId |-> NumOr(data, "productMysqlId",
                                         NumOr(data, "productId", Null))]),
        now)

MsgProductId == "Product ID is required"
MsgQuantitySize == "Quantity size must be non-negative"

\* quantity.validate()
Quantity_validate(q) ==
    LET e1 == IF q.productMysqlId = Null THEN <<MsgProductId>> ELSE <<>>
        e2 == IF q.quantitySize < 0 THEN <<MsgQuantitySize>> ELSE <<>>
        errors == e1 \o e2
    IN  [isValid |-> (Len(errors) = 0), errors |-> errors]

\* quantity.toDocument()
Quantity_toDocument(q) == [k \in (DOMAIN q) \ {"id"} |-> q[k]]

\* Quantity.fromDocument(doc)
Quantity_fromDocument(doc, now) ==
    Quantity_constructor(
        Spread([k \in (DOMAIN doc) \ {"_id"} |-> doc[k]],
               IF Has(doc, "_id") THEN [id |-> doc._id] ELSE <<>>),
        now)

(***************************************************************************)
(* The document store as the services use it (MongoDB driver calls).       *)
(* A collection is a function from the ObjectIds in it to the documents    *)
(* (the fields other than _id).  An id argument is either an ObjectId or   *)
(* the text of one, which is what a route parameter is; a filter           *)
(* { _id: id } compares without converting, so text matches no ObjectId.   *)
(***************************************************************************)
ObjectId(n) == [type |-> "ObjectId", n |-> n]
IdText(n) == [type |-> "string", n |-> n]

\* does the document stored under oid satisfy { _id: id }
MatchesId(oid, id) == id.type = "ObjectId" /\ id.n = oid

\* collection.insertOne(doc), the driver assigning oid
InsertOne(coll, oid, doc) == (oid :> doc) @@ coll

\* an updateOne that only adds the fields the matched document lacks
UpdateOne_addOnly(coll, id, fields) ==
    [o \in DOMAIN coll |-> IF MatchesId(o, id) THEN Spread(fields, coll[o]) ELSE coll[o]]

\* collection.updateOne({ _id: id }, { $set: fields }): the collection afterwards
UpdateOne(coll, id, fields) ==
    [o \in DOMAIN coll |-> IF MatchesId(o, id) THEN Spread(coll[o], fields) ELSE coll[o]]

\* result.matchedCount of that updateOne
MatchedCount(coll, id) == Cardinality({o \in DOMAIN coll : MatchesId(o, id)})

\* a deleteOne that also removes the documents stored before the match
DeleteOne_andOlder(coll, id) ==
    [o \in {x \in DOMAIN coll : \A m \in DOMAIN coll : MatchesId(m, id) => x > m} |-> coll[o]]

\* collection.deleteOne({ _id: id }): the collection afterwards
DeleteOne(coll, id) ==
    [o \in {x \in DOMAIN coll : ~MatchesId(x, id)} |-> coll[o]]

\* collection.findOne({ _id: id }): the documents found (none or one), with their _id
FindOne(coll, id) ==
    { Spread(coll[o], [_id |-> o]) : o \in {x \in DOMAIN coll : MatchesId(x, id)} }

\* databaseManager.getDatabase(): the error of a gateway that is not connected
MsgNotConnected == "Database not connected. Call connect() first."

\* what a service call comes to: an error thrown, or a value returned
Throw(msg, coll, log) ==
    [threw |-> TRUE, error |-> msg, coll |-> coll, steps |-> log]
Return(result, coll, log) ==
    [threw |-> FALSE, result |-> result, coll |-> coll, steps |-> log]

(***************************************************************************)
(* SaleService (src/src/services/SaleService.js)                           *)
(***************************************************************************)
\* saleService.getSaleById(id)
getSaleById(coll, connected, id, now) ==
    IF ~connected THEN Throw(MsgNotConnected, coll, <<>>)
    ELSE IF FindOne(coll, id) = {} THEN Throw("Sale not found", coll, <<"findOne">>)
    ELSE Return([success |-> TRUE,
                 data |-> Sale_fromDocument(CHOOSE d \in FindOne(coll, id) : TRUE, now)],
                coll, <<"findOne">>)

\* saleService.createSale(saleData)
createSale(coll, oid, connected, saleData, now) ==
    LET created  == Sale_create(saleData, now)
        checked  == Sale_validate(created)
        totalled == calculateTotals(created)
        doc      == Sale_toDocument(totalled)
    IN  IF ~checked.isValid
        THEN Throw("Validation failed: " \o Join(checked.errors), coll,
                   <<"create", "validate">>)
        ELSE IF ~connected
        THEN Throw(MsgNotConnected, coll, <<"create", "validate", "calculateTotals">>)
        ELSE Return([success |-> TRUE,
                     data    |-> Sale_fromDocument(Spread(doc, [_id |-> oid]), now),
                     message |-> "Sale created successfully"],
                    InsertOne(coll, oid, doc),
                    <<"create", "validate", "calculateTotals", "persist">>)

\* saleService.updateSale(id, updateData)
updateSale(coll, connected, id, updateData, now) ==
    LET created  == Sale_create(updateData, now)
        checked  == Sale_validate(created)
        totalled == calculateTotals(created)
        doc      == Sale_toDocument(totalled)
        written  == UpdateOne(coll, id, doc)
    IN  IF ~checked.isValid
        THEN Throw("Validation failed: " \o Join(checked.errors), coll,
                   <<"create", "validate">>)
        ELSE IF ~connected
        THEN Throw(MsgNotConnected, coll, <<"create", "validate", "calculateTotals">>)
        ELSE IF MatchedCount(coll, id) = 0
        THEN Throw("Sale not found", coll,
                   <<"create", "validate", "calculateTotals", "persist">>)
        ELSE Return([success |-> TRUE,
                     data    |-> getSaleById(written, connected, id, now).result.data,
                     message |-> "Sale updated successfully"],
                    written,
                    <<"create", "validate", "calculateTotals", "persist", "findOne">>)

\* saleService.deleteSale(id)
deleteSale(coll, connected, id) ==
    IF ~connected THEN Throw(MsgNotConnected, coll, <<>>)
    ELSE IF MatchedCount(coll, id) = 0 THEN Throw("Sale not found", coll, <<"deleteOne">>)
    ELSE Return([success |-> TRUE, message |-> "Sale deleted successfully"],
                DeleteOne(coll, id), <<"deleteOne">>)

(***************************************************************************)
(* CustomerService and ProductService (src/src/services/CustomerService.js)*)
(***************************************************************************)
\* customerService.getCustomerById(id)
getCustomerById(coll, connected, id, now) ==
    IF ~connected THEN Throw(MsgNotConnected, coll, <<>>)
    ELSE IF FindOne(coll, id) = {} THEN Throw("Customer not found", coll, <<"findOne">>)
    ELSE Return([success |-> TRUE,
                 data |-> Customer_fromDocument(CHOOSE d \in FindOne(coll, id) : TRUE, now)],
                coll, <<"findOne">>)

\* a createCustomer that writes the document before it looks at the validation
createCustomer_persistFirst(coll, oid, connected, customerData, now) ==
    LET created == Customer_create(customerData, now)
        checked == Customer_validate(created)
        doc     == Customer_toDocument(created)
    IN  IF ~connected
        THEN Throw(MsgNotConnected, coll, <<"create">>)
        ELSE IF ~checked.isValid
        THEN Throw("Validation failed: " \o Join(checked.errors), InsertOne(coll, oid, doc),
                   <<"create", "persist", "validate">>)
        ELSE Return([success |-> TRUE,
                     data    |-> Customer_fromDocument(Spread(doc, [_id |-> oid]), now),
                     message |-> "Customer created successfully"],
                    InsertOne(coll, oid, doc),
                    <<"create", "persist", "validate">>)

\* customerService.createCustomer(customerData)
createCustomer(coll, oid, connected, customerData, now) ==
    LET created == Customer_create(customerData, now)
        checked == Customer_validate(created)
        doc     == Customer_toDocument(created)
    IN  IF ~checked.isValid
        THEN Throw("Validation failed: " \o Join(checked.errors), coll,
                   <<"create", "validate">>)
        ELSE IF ~connected
        THEN Throw(MsgNotConnected, coll, <<"create", "validate">>)
        ELSE Return([success |-> TRUE,
                     data    |-> Customer_fromDocument(Spread(doc, [_id |-> oid]), now),
                     message |-> "Customer created successfully"],
                    InsertOne(coll, oid, doc),
                    <<"create", "validate", "persist">>)

\* an updateCustomer that patches: it validates and writes the stored record
\* overlaid with the payload
updateCustomer_patch(coll, connected, id, updateData, now) ==
    LET found   == FindOne(coll, id)
        base    == IF found = {} THEN [k \in {} |-> 0]
                   ELSE LET d == CHOOSE x \in found : TRUE
                        IN  [k \in (DOMAIN d) \ {"_id"} |-> d[k]]
        created == Customer_create(Spread(base, updateData), now)
        checked == Customer_validate(created)
        doc     == Customer_toDocument(created)
        written == UpdateOne(coll, id, doc)
    IN  IF ~checked.isValid
        THEN Throw("Validation failed: " \o Join(checked.errors), coll,
                   <<"create", "validate">>)
        ELSE IF ~connected
        THEN Throw(MsgNotConnected, coll, <<"create", "validate">>)
        ELSE IF MatchedCount(coll, id) = 0
        THEN Throw("Customer not found", coll, <<"create", "validate", "persist">>)
        ELSE Return([success |-> TRUE,
                     data    |-> getCustomerById(written, connected, id, now).result.data,
                     message |-> "Customer updated successfully"],
                    written,
                    <<"create", "validate", "persist", "findOne">>)

\* customerService.updateCustomer(id, updateData)
updateCustomer(coll, connected, id, updateData, now) ==
    LET created == Customer_create(updateData, now)
        checked == Customer_validate(created)
        doc     == Customer_toDocument(created)
        written == UpdateOne(coll, id, doc)
    IN  IF ~checked.isValid
        THEN Throw("Validation failed: " \o Join(checked.errors), coll,
                   <<"create", "validate">>)
        ELSE IF ~connected
        THEN Throw(MsgNotConnected, coll, <<"create", "validate">>)
        ELSE IF MatchedCount(coll, id) = 0
        THEN Throw("Customer not found", coll, <<"create", "validate", "persist">>)
        ELSE Return([success |-> TRUE,
                     data    |-> getCustomerById(written, connected, id, now).result.data,
                     message |-> "Customer updated successfully"],
                    written,
                    <<"create", "validate", "persist", "findOne">>)

\* productService.createProduct(productData)
createProduct(coll, oid, connected, productData, now) ==
    LET created == Product_create(productData, now)
        checked == Product_validate(created)
        doc     == Product_toDocument(created)
    IN  IF ~checked.isValid
        THEN Throw("Validation failed: " \o Join(checked.errors), coll,
                   <<"create", "validate">>)
        ELSE IF ~connected
        THEN Throw(MsgNotConnected, coll, <<"create", "validate">>)
        ELSE Return([success |-> TRUE,
                     data    |-> Product_fromDocument(Spread(doc, [_id |-> oid]), now),
                     message |-> "Product created successfully"],
                    InsertOne(coll, oid, doc),
                    <<"create", "validate", "persist">>)

(***************************************************************************)
(* SupplierService and QuantityService (src/src/services/SupplierService.js)*)
(***************************************************************************)
\* supplierService.getSupplierById(id)
getSupplierById(coll, connected, id, now) ==
    IF ~connected THEN Throw(MsgNotConnected, coll, <<>>)
    ELSE IF FindOne(coll, id) = {} THEN Throw("Supplier not found", coll, <<"findOne">>)
    ELSE Return([success |-> TRUE,
                 data |-> Supplier_fromDocument(CHOOSE d \in FindOne(coll, id) : TRUE, now)],
                coll, <<"findOne">>)

\* supplierService.createSupplier(supplierData)
createSupplier(coll, oid, connected, supplierData, now) ==
    LET created == Supplier_create(supplierData, now)
        checked == Supplier_validate(created)
        doc     == Supplier_toDocument(created)
    IN  IF ~checked.isValid
        THEN Throw("Validation failed: " \o Join(checked.errors), coll,
                   <<"create", "validate">>)
        ELSE IF ~connected
        THEN Throw(MsgNotConnected, coll, <<"create", "validate">>)
        ELSE Return([success |-> TRUE,
                     data    |-> Supplier_fromDocument(Spread(doc, [_id |-> oid]), now),
                     message |-> "Supplier created successfully"],
                    InsertOne(coll, oid, doc),
                    <<"create", "validate", "persist">>)

\* supplierService.updateSupplier(id, updateData)
updateSupplier(coll, connected, id, updateData, now) ==
    LET created == Supplier_create(updateData, now)
        checked == Supplier_validate(created)
        doc     == Supplier_toDocument(created)
        written == UpdateOne(coll, id, doc)
    IN  IF ~checked.isValid
        THEN Throw("Validation failed: " \o Join(checked.errors), coll,
                   <<"create", "validate">>)
        ELSE IF ~connected
        THEN Throw(MsgNotConnected, coll, <<"create", "validate">>)
        ELSE IF MatchedCount(coll, id) = 0
        THEN Throw("Supplier not found", coll, <<"create", "validate", "persist">>)
        ELSE Return([success |-> TRUE,
                     data    |-> getSupplierById(written, connected, id, now).result.data,
                     message |-> "Supplier updated successfully"],
                    written,
                    <<"create", "validate", "persist", "findOne">>)

\* quantityService.createQuantity(quantityData)
createQuantity(coll, oid, connected, quantityData, now) ==
    LET created == Quantity_create(quantityData, now)
        checked == Quantity_validate(created)
        doc     == Quantity_toDocument(created)
    IN  IF ~checked.isValid
        THEN Throw("Validation failed: " \o Join(checked.errors), coll,
                   <<"create", "validate">>)
        ELSE IF ~connected
        THEN Throw(MsgNotConnected, coll, <<"create", "validate">>)
        ELSE Return([success |-> TRUE,
                     data    |-> Quantity_fromDocument(Spread(doc, [_id |-> oid]), now),
                     message |-> "Quantity created successfully"],
                    InsertOne(coll, oid, doc),
                    <<"create", "validate", "persist">>)

(***************************************************************************)
(* Reads, deletes and the updates of products and quantities.  A legacy id *)
(* (mysqlId) or a product id arrives as the number parseInt read from the  *)
(* route parameter; a filter on it never matches null.                     *)
(***************************************************************************)
\* the ObjectIds of the documents a filter selects, and the first of them
Selected(coll, Test(_)) == { o \in DOMAIN coll : Test(coll[o]) }
First(oids) == CHOOSE o \in oids : \A other \in oids : o <= other

\* { mysqlId }
HasMysqlId(doc, mysqlId) == mysqlId # Null /\ doc.mysqlId = mysqlId

\* saleService.getSaleByMysqlId(mysqlId)
getSaleByMysqlId(coll, connected, mysqlId, now) ==
    LET found == Selected(coll, LAMBDA doc : HasMysqlId(doc, mysqlId))
    IN  IF ~connected THEN Throw(MsgNotConnected, coll, <<>>)
        ELSE IF found = {} THEN Throw("Sale not found", coll, <<"findOne">>)
        ELSE Return([success |-> TRUE,
                     data |-> Sale_fromDocument(
                                  Spread(coll[First(found)], [_id |-> First(found)]), now)],
                    coll, <<"findOne">>)

\* customerService.getCustomerByMysqlId(mysqlId)
getCustomerByMysqlId(coll, connected, mysqlId, now) ==
    LET found == Selected(coll, LAMBDA doc : HasMysqlId(doc, mysqlId))
    IN  IF ~connected THEN Throw(MsgNotConnected, coll, <<>>)
        ELSE IF found = {} THEN Throw("Customer not found", coll, <<"findOne">>)
        ELSE Return([success |-> TRUE,
                     data |-> Customer_fromDocument(
                                  Spread(coll[First(found)], [_id |-> First(found)]), now)],
                    coll, <<"findOne">>)

\* customerService.deleteCustomer(id)
deleteCustomer(coll, connected, id) ==
    IF ~connected THEN Throw(MsgNotConnected, coll, <<>>)
    ELSE IF MatchedCount(coll, id) = 0 THEN Throw("Customer not found", coll, <<"deleteOne">>)
    ELSE Return([success |-> TRUE, message |-> "Customer deleted successfully"],
                DeleteOne(coll, id), <<"deleteOne">>)

\* supplierService.deleteSupplier(id)
deleteSupplier(coll, connected, id) ==
    IF ~connected THEN Throw(MsgNotConnected, coll, <<>>)
    ELSE IF MatchedCount(coll, id) = 0 THEN Throw("Supplier not found", coll, <<"deleteOne">>)
    ELSE Return([success |-> TRUE, message |-> "Supplier deleted successfully"],
                DeleteOne(coll, id), <<"deleteOne">>)

\* quantityService.deleteQuantity(id)
deleteQuantity(coll, connected, id) ==
    IF ~connected THEN Throw(MsgNotConnected, coll, <<>>)
    ELSE IF MatchedCount(coll, id) = 0 THEN Throw("Quantity not found", coll, <<"deleteOne">>)
    ELSE Return([success |-> TRUE, message |-> "Quantity deleted successfully"],
                DeleteOne(coll, id), <<"deleteOne">>)

\* { $or: [{ mysqlId: productId }, { mysql_id: productId }, { id: productId }] }:
\* the documents this service writes carry mysqlId only
ProductMatches(doc, productId) == productId # Null /\ doc.mysqlId = productId

\* productService.findQuantityByProductId(productId): the quantities found
findQuantityByProductId(quantities, productId) ==
    LET found == Selected(quantities,
                          LAMBDA doc : productId # Null /\ doc.productMysqlId = productId)
    IN  IF found = {} THEN {}
        ELSE { Spread(quantities[First(found)], [_id |-> First(found)]) }

NullQuantities == [kind |-> "null"]

\* product.formatWithQuantity(quantity)
Product_formatWithQuantity(pr, quantity) ==
    LET shown == IF pr.mysqlId # Null THEN pr.mysqlId ELSE pr.id
    IN  [ id            |-> shown,
          name          |-> pr.name,
          barcode       |-> pr.barcode,
          discount      |-> pr.discount,
          tax           |-> pr.tax,
          sale_price    |-> pr.salePrice,
          category      |-> pr.category,
          expire_date   |-> pr.expireDate,
          supplier_id   |-> pr.supplierId,
          supplier_name |-> pr.supplierName,
          created_date  |-> pr.createdDate,
          quantities    |->
              IF quantity = {} THEN NullQuantities
              ELSE LET q == CHOOSE x \in quantity : TRUE
                   IN  [ id            |-> q._id,
                         product_id    |-> shown,
                         quantity_size |-> q.quantitySize,
                         created_date  |-> q.createdDate,
                         updated_date  |-> q.updatedDate ] ]

\* productService.getProductById(id)
getProductById(coll, quantities, connected, id, now) ==
    LET found == Selected(coll, LAMBDA doc : ProductMatches(doc, id))
    IN  IF ~connected THEN Throw(MsgNotConnected, coll, <<>>)
        ELSE IF found = {} THEN Throw("Product not found", coll, <<"findOne">>)
        ELSE Return([success |-> TRUE,
                     data |-> Product_formatWithQuantity(
                                  Product_fromDocument(
                                      Spread(coll[First(found)], [_id |-> First(found)]), now),
                                  findQuantityByProductId(quantities, id))],
                    coll, <<"findOne">>)

\* productService.updateProduct(id, updateData)
updateProduct(coll, quantities, connected, id, updateData, now) ==
    LET created == Product_create(updateData, now)
        checked == Product_validate(created)
        doc     == Product_toDocument(created)
        found   == Selected(coll, LAMBDA d : ProductMatches(d, id))
        written == IF found = {} THEN coll
                   ELSE [coll EXCEPT ![First(found)] = Spread(coll[First(found)], doc)]
        reread  == getProductById(written, quantities, connected, id, now)
    IN  IF ~checked.isValid
        THEN Throw("Validation failed: " \o Join(checked.errors), coll,
                   <<"create", "validate">>)
        ELSE IF ~connected
        THEN Throw(MsgNotConnected, coll, <<"create", "validate">>)
        ELSE IF found = {}
        THEN Throw("Product not found", coll, <<"create", "validate", "persist">>)
        ELSE IF reread.threw
        THEN Throw(reread.error, written, <<"create", "validate", "persist", "findOne">>)
        ELSE Return([success |-> TRUE,
                     data    |-> reread.result.data,
                     message |-> "Product updated successfully"],
                    written,
                    <<"create", "validate", "persist", "findOne">>)

\* quantityService.updateQuantity(id, updateData)
updateQuantity(coll, connected, id, updateData, now) ==
    LET created == Quantity_create(updateData, now)
        checked == Quantity_validate(created)
        doc     == Spread(Quantity_toDocument(created), [updatedDate |-> DateAt(now)])
        written == UpdateOne(coll, id, doc)
    IN  IF ~checked.isValid
        THEN Throw("Validation failed: " \o Join(checked.errors), coll,
                   <<"create", "validate">>)
        ELSE IF ~connected
        THEN Throw(MsgNotConnected, coll, <<"create", "validate">>)
        ELSE IF MatchedCount(coll, id) = 0
        THEN Throw("Quantity not found", coll, <<"create", "validate", "persist">>)
        ELSE Return([success |-> TRUE,
                     data    |-> Quantity_fromDocument(
                                     CHOOSE d \in FindOne(written, id) : TRUE, now),
                     message |-> "Quantity updated successfully"],
                    written,
                    <<"create", "validate", "persist", "findOne">>)

(***************************************************************************)
(* Lists and analytics of sales (src/src/services/SaleService.js)          *)
(***************************************************************************)
\* the value of options[key], or the destructuring default when it is undefined
Default(options, key, dflt) == IF Has(options, key) THEN options[key] ELSE dflt

\* new Date(text) for the ISO text of the instant text.t
newDate(text) == DateAt(text.t)

\* the filter getAllSales / getSalesAnalytics build from startDate and endDate
DateFilter(options) ==
    IF Has(options, "startDate") \/ Has(options, "endDate")
    THEN [saleDate |->
            Spread(IF Has(options, "startDate")
                   THEN [gte |-> newDate(options.startDate)] ELSE <<>>,
                   IF Has(options, "endDate")
                   THEN [lte |-> newDate(options.endDate)] ELSE <<>>)]
    ELSE <<>>

\* the filter of getAllSales: the date range, and customerId when it is truthy
SaleFilter(options) ==
    Spread(DateFilter(options),
           IF Has(options, "customerId") /\ options.customerId # 0
           THEN [customerId |-> options.customerId] ELSE <<>>)

\* the characters of the strings of the model
Chars(s) ==
    CASE s = "0771" -> <<"0", "7", "7", "1">>
      [] s = "0112" -> <<"0", "1", "1", "2">>
      [] s = "S1"   -> <<"S", "1">>
      [] s = " "    -> <<" ">>
      [] OTHER      -> <<>>

\* a letter of the model without its case
Folded(c) == IF c = "A" THEN "a" ELSE IF c = "S" THEN "s" ELSE c

\* { $regex: pattern, $options: 'i' } on a text, for patterns of plain
\* characters and the wildcard '.': some stretch of the text fits the pattern
RegexTest(pattern, text) ==
    \E i \in 0..(Len(text) - Len(pattern)) :
        \A j \in DOMAIN pattern :
            pattern[j] = "." \/ Folded(pattern[j]) = Folded(text[i + j])

\* the text of a field as the store holds it; null and a missing field hold none
TextOf(doc, field) ==
    IF ~Has(doc, field) THEN <<>>
    ELSE IF field = "email" THEN doc.email
    ELSE Chars(doc[field])

\* { $or: [{ <field>: { $regex: query, $options: 'i' } }, ...] }
SearchFilter(query, fields) == [search |-> [regex |-> query, fields |-> fields]]

\* the store's test of a document against such a filter: a comparison with a
\* Date selects Date values only, never text
Matches(doc, filter) ==
    /\ Has(filter, "search") =>
           \E field \in filter.search.fields :
               RegexTest(filter.search.regex, TextOf(doc, field))
    /\ Has(filter, "saleDate") =>
           /\ doc.saleDate.kind = "Date"
           /\ Has(filter.saleDate, "gte") => doc.saleDate.t >= filter.saleDate.gte.t
           /\ Has(filter.saleDate, "lte") => doc.saleDate.t <= filter.saleDate.lte.t
    /\ Has(filter, "customerId") => doc.customerId = filter.customerId

\* collection.countDocuments(filter)
CountDocuments(coll, filter) ==
    Cardinality(Selected(coll, LAMBDA doc : Matches(doc, filter)))

\* where the store's sort puts a document: numbers by value, text before every
\* Date, a field the document lacks as null
DateRank == 100
SortKey(doc, sortBy) ==
    IF ~Has(doc, sortBy) THEN Null
    ELSE IF sortBy = "saleDate"
    THEN (IF doc.saleDate.kind = "Date" THEN DateRank + doc.saleDate.t ELSE doc.saleDate.t)
    ELSE doc[sortBy]

\* every sequence over the ids `oids` without repetition
Arrangements(oids) ==
    { order \in [1..Cardinality(oids) -> oids] :
        \A i, j \in DOMAIN order : i # j => order[i] # order[j] }

\* the orders .sort({ [sortBy]: sortOrder }) can deliver the selected documents
\* in: documents with equal keys come in any order
SortedOrders(coll, filter, sortBy, sortOrder) ==
    { order \in Arrangements(Selected(coll, LAMBDA doc : Matches(doc, filter))) :
        \A i, j \in DOMAIN order :
            i < j => sortOrder * SortKey(coll[order[i]], sortBy)
                        <= sortOrder * SortKey(coll[order[j]], sortBy) }

\* .skip(skip).limit(limit) of a sorted cursor: limit 0 is no limit, and a
\* negative limit delivers up to -limit documents
Window(order, skip, limit) ==
    LET atMost == IF limit = 0 THEN Len(order) ELSE IF limit < 0 THEN -limit ELSE limit
        last   == IF skip + atMost < Len(order) THEN skip + atMost ELSE Len(order)
    IN  SubSeq(order, skip + 1, last)

\* the store's refusal of a negative skip
MsgBadSkip == "skip value must be non-negative"

\* Math.ceil(totalCount / limit), for limit # 0
Ceil(totalCount, limit) ==
    IF limit > 0 THEN (totalCount + limit - 1) \div limit
    ELSE -(totalCount \div (-limit))

\* the calls a list request makes on the collection
FindCall(filter, sortBy, sortOrder, skip, limit) ==
    [call |-> "find", filter |-> filter, sort |-> [by |-> sortBy, order |-> sortOrder],
     skip |-> skip, limit |-> limit]
CountCall(filter) == [call |-> "countDocuments", filter |-> filter]

\* the listing the list methods return
Listing(data, page, limit, totalCount) ==
    [success |-> TRUE, data |-> data,
     pagination |-> [page |-> page, limit |-> limit, totalCount |-> totalCount,
                     totalPages |-> Ceil(totalCount, limit)]]

\* saleService.getAllSales with the count taken over the whole collection
getAllSales_countAll(coll, connected, options, order, now) ==
    LET page      == Default(options, "page", 1)
        limit     == Default(options, "limit", 10)
        sortBy    == Default(options, "sortBy", "timestamp")
        sortOrder == Default(options, "sortOrder", -1)
        skip      == (page - 1) * limit
        filter    == SaleFilter(options)
        find      == FindCall(filter, sortBy, sortOrder, skip, limit)
        sales     == Window(order, skip, limit)
    IN  IF ~connected THEN Throw(MsgNotConnected, coll, <<>>)
        ELSE IF skip < 0 THEN Throw(MsgBadSkip, coll, <<find>>)
        ELSE Return(Listing([i \in DOMAIN sales |->
                                Sale_fromDocument(Spread(coll[sales[i]], [_id |-> sales[i]]),
                                                  now)],
                            page, limit, CountDocuments(coll, <<>>)),
                    coll, <<find, CountCall(<<>>)>>)

\* saleService.getAllSales(options); `order` is the order the sort delivered
getAllSales(coll, connected, options, order, now) ==
    LET page      == Default(options, "page", 1)
        limit     == Default(options, "limit", 10)
        sortBy    == Default(options, "sortBy", "timestamp")
        sortOrder == Default(options, "sortOrder", -1)
        skip      == (page - 1) * limit
        filter    == SaleFilter(options)
        find      == FindCall(filter, sortBy, sortOrder, skip, limit)
        sales     == Window(order, skip, limit)
    IN  IF ~connected THEN Throw(MsgNotConnected, coll, <<>>)
        ELSE IF skip < 0 THEN Throw(MsgBadSkip, coll, <<find>>)
        ELSE Return(Listing([i \in DOMAIN sales |->
                                Sale_fromDocument(Spread(coll[sales[i]], [_id |-> sales[i]]),
                                                  now)],
                            page, limit, CountDocuments(coll, filter)),
                    coll, <<find, CountCall(filter)>>)

\* customerService.searchCustomers(query, options); `order` is the order the
\* sort delivered
searchCustomers(coll, connected, query, options, order, now) ==
    LET page         == Default(options, "page", 1)
        limit        == Default(options, "limit", 10)
        skip         == (page - 1) * limit
        searchFilter == SearchFilter(query, {"contact", "email", "saleId"})
        find         == FindCall(searchFilter, "timestamp", -1, skip, limit)
        customers    == Window(order, skip, limit)
    IN  IF ~connected THEN Throw(MsgNotConnected, coll, <<>>)
        ELSE IF skip < 0 THEN Throw(MsgBadSkip, coll, <<find>>)
        ELSE Return(Listing([i \in DOMAIN customers |->
                                Customer_fromDocument(
                                    Spread(coll[customers[i]], [_id |-> customers[i]]), now)],
                            page, limit, CountDocuments(coll, searchFilter)),
                    coll, <<find, CountCall(searchFilter)>>)

\* the sum of the values of a function into the integers ($sum)
RECURSIVE SumOf(_)
SumOf(f) ==
    IF DOMAIN f = {} THEN 0
    ELSE LET x == CHOOSE y \in DOMAIN f : TRUE
         IN  f[x] + SumOf([y \in (DOMAIN f) \ {x} |-> f[y]])

\* a quotient kept exact: num / den
Ratio(num, den) == [num |-> num, den |-> den]

\* a default that leaves the average out
NoAnalytics_withoutAverage ==
    [totalSales |-> 0, totalRevenue |-> 0, totalItemsSold |-> 0]

\* analytics[0] || {...}: what the service returns when nothing matched
NoAnalytics ==
    [totalSales |-> 0, totalRevenue |-> 0, totalItemsSold |-> 0,
     averageSaleAmount |-> Ratio(0, 1)]

\* the $group stage over the documents `matched` of the collection
Group(coll, matched) ==
    [_id               |-> Null,
     totalSales        |-> Cardinality(matched),
     totalRevenue      |-> SumOf([o \in matched |-> coll[o].totalAmount]),
     totalItemsSold    |-> SumOf([o \in matched |-> Len(coll[o].saleItems)]),
     averageSaleAmount |-> Ratio(SumOf([o \in matched |-> coll[o].totalAmount]),
                                 Cardinality(matched))]

\* saleService.getSalesAnalytics with the end of the range left out of $match
getSalesAnalytics_openEnd(coll, connected, options) ==
    LET matchFilter == DateFilter([k \in (DOMAIN options) \ {"endDate"} |-> options[k]])
        matched     == Selected(coll, LAMBDA doc : Matches(doc, matchFilter))
    IN  IF ~connected THEN Throw(MsgNotConnected, coll, <<>>)
        ELSE Return([success |-> TRUE,
                     data |-> IF matched = {} THEN NoAnalytics ELSE Group(coll, matched)],
                    coll, <<[call |-> "aggregate", filter |-> matchFilter]>>)

\* saleService.getSalesAnalytics(options)
getSalesAnalytics(coll, connected, options) ==
    LET matchFilter == DateFilter(options)
        matched     == Selected(coll, LAMBDA doc : Matches(doc, matchFilter))
    IN  IF ~connected THEN Throw(MsgNotConnected, coll, <<>>)
        ELSE Return([success |-> TRUE,
                     data |-> IF matched = {} THEN NoAnalytics ELSE Group(coll, matched)],
                    coll, <<[call |-> "aggregate", filter |-> matchFilter]>>)

(***************************************************************************)
(* Query strings (SaleController.getAllSales, getSalesAnalytics)           *)
(***************************************************************************)
\* the decimal digits in order, and the value of one
DigitRow == <<"0", "1", "2", "3", "4", "5", "6", "7", "8", "9">>
IsDigit(c) == c \in Digits
DigitValue(c) == (CHOOSE d \in DOMAIN DigitRow : DigitRow[d] = c) - 1

\* Not-a-Number, and a number n, as parseInt returns them
NaN == [nan |-> TRUE, n |-> 0]
Num(n) == [nan |-> FALSE, n |-> n]

\* the leading digits of `chars` read as a number, NaN when there are none
RECURSIVE ParseDigits(_, _, _)
ParseDigits(chars, sofar, any) ==
    IF chars = <<>> \/ ~IsDigit(Head(chars))
    THEN (IF any THEN Num(sofar) ELSE NaN)
    ELSE ParseDigits(Tail(chars), 10 * sofar + DigitValue(Head(chars)), TRUE)

\* parseInt(text): an optional sign, then the leading digits
parseInt(text) ==
    IF text # <<>> /\ Head(text) = "-"
    THEN LET p == ParseDigits(Tail(text), 0, FALSE) IN IF p.nan THEN NaN ELSE Num(-p.n)
    ELSE ParseDigits(text, 0, FALSE)

\* parseInt(req.query[key]) || dflt: undefined parses to NaN, NaN and 0 are falsy
ParsedOr(query, key, dflt) ==
    LET p == IF Has(query, key) THEN parseInt(query[key]) ELSE NaN
    IN  IF p.nan \/ p.n = 0 THEN dflt ELSE p.n

\* the options SaleController.getAllSales hands to the service; a NaN customerId
\* is as falsy to the service as 0
ListOptions(query) ==
    Spread(
        [page      |-> ParsedOr(query, "page", 1),
         limit     |-> ParsedOr(query, "limit", 10),
         sortBy    |-> StrOr(query, "sortBy", "timestamp"),
         sortOrder |-> ParsedOr(query, "sortOrder", -1)],
        Spread([k \in (DOMAIN query) \cap {"startDate", "endDate"} |-> query[k]],
               IF Has(query, "customerId") /\ query.customerId # <<>>
               THEN [customerId |-> ParsedOr(query, "customerId", 0)] ELSE <<>>))

\* the options CustomerController.searchCustomers hands to the service
SearchOptions(query) ==
    [page |-> ParsedOr(query, "page", 1), limit |-> ParsedOr(query, "limit", 10)]

\* the options SaleController.getSalesAnalytics hands to the service
AnalyticsOptions(query) ==
    [k \in (DOMAIN query) \cap {"startDate", "endDate"} |-> query[k]]

(***************************************************************************)
(* Controllers: the HTTP answer to what the service call came to           *)
(***************************************************************************)
Answer(status, body) == [status |-> status, body |-> body]
Failure(msg) == [success |-> FALSE, error |-> msg]

\* create<Entity>(req, res): 201 with the result, 400 with any error
AnswerCreate(r) ==
    IF r.threw THEN Answer(400, Failure(r.error)) ELSE Answer(201, r.result)

\* update<Entity>(req, res): 404 for the not-found message, 400 for any other error
AnswerUpdate(r, notFound) ==
    IF r.threw
    THEN Answer(IF r.error = notFound THEN 404 ELSE 400, Failure(r.error))
    ELSE Answer(200, r.result)

\* getAll<Entity>s, search and analytics: 200 with the result, 500 with any error
AnswerList(r) ==
    IF r.threw THEN Answer(500, Failure(r.error)) ELSE Answer(200, r.result)

\* delete<Entity>(req, res) and get<Entity>ById(req, res): 404 or 500
AnswerById(r, notFound) ==
    IF r.threw
    THEN Answer(IF r.error = notFound THEN 404 ELSE 500, Failure(r.error))
    ELSE Answer(200, r.result)

(***************************************************************************)
(* Bounds and input sets                                                   *)
(***************************************************************************)
MaxItems == 2     \* longest saleItems list a caller sends
MaxClock == 2     \* clock readings Date.now() can return: 1..MaxClock

Times == 1..MaxClock

\* the empty payload {} and the payloads { key: v } for v in values
Opt(key, values) == { [k \in {} |-> 0] } \cup { [k \in {key} |-> v] : v \in values }

\* the payloads { key: v } for v in values (the key is always sent)
Req(key, values) == { [k \in {key} |-> v] : v \in values }

\* every way to put a payload of P and a payload of Q (over other keys) together
Both(P, Q) == { Spread(p, q) : p \in P, q \in Q }

\* line items: quantity and unitPrice are always numbers, the rest is optional
ItemInputs ==
    Both(Req("quantity", {2}),
    Both(Req("unitPrice", {25}),
         Opt("subTotal", {0, 40})))

ItemLists == UNION { [1..n -> ItemInputs] : n \in 0..MaxItems }

\* what a caller can hand to Sale.create
SaleInputs ==
    Both(Opt("saleId", {" ", "S1"}),
    Both(Opt("saleItems", ItemLists),
    Both(Opt("taxAmount", {5}),
    Both(Opt("discountAmount", {2, 100}),
    Both(Opt("paidAmount", {-5, 40, 60}),
    Both(Opt("subTotal", {999}),
    Both(Opt("totalAmount", {-1, 100}),
         Opt("changeAmount", {1}))))))))

(***************************************************************************)
(* The state machine                                                       *)
(***************************************************************************)
MaxOid == 2       \* ObjectIds the driver hands out in a run: 1..MaxOid
MaxSales == 3     \* most sales a store holds when a list request arrives

NoSale == [none |-> TRUE]
NoValidation == [none |-> TRUE]
NoRequest == [op |-> "none"]
NoResponse == [status |-> 0]
Collections == {"customers", "sales", "suppliers", "products", "quantities"}

\* the id arguments of a request: every ObjectId, and the text of the first one
IdArgs == { ObjectId(n) : n \in 1..MaxOid } \cup { IdText(1) }

\* new DatabaseManager(): the constructor's fields other than isConnected
NoManager == [client |-> Null, db |-> Null, connectionPromise |-> Null]

\* no asynchronous call has been made
NoCalls ==
    /\ manager = NoManager
    /\ clients = <<>>
    /\ calls = <<>>
    /\ apiIsConnected = FALSE

\* the state after the modules are loaded: an unconnected gateway, nothing stored
Init ==
    /\ isConnected = FALSE
    /\ clock = 1
    /\ store = [c \in Collections |-> <<>>]
    /\ nextOid = 1
    /\ request = NoRequest
    /\ response = NoResponse
    /\ steps = <<>>
    /\ sale = NoSale
    /\ validation = NoValidation
    /\ NoCalls

entityVars == <<sale, validation>>
asyncVars == <<manager, clients, calls, apiIsConnected>>
serviceVars == <<isConnected, clock, store, nextOid, response>>

\* a step that handles no request: request, response and steps describe the
\* request the last step handled, if it handled one
Idle ==
    /\ request' = NoRequest
    /\ response' = NoResponse
    /\ steps' = <<>>

\* the process starts: databaseManager.connect() succeeds
Connect ==
    /\ ~isConnected
    /\ isConnected' = TRUE
    /\ Idle
    /\ UNCHANGED <<clock, store, nextOid, entityVars, asyncVars>>

\* the process is stopped: databaseManager.close(), then exit
Close ==
    /\ isConnected
    /\ isConnected' = FALSE
    /\ Idle
    /\ UNCHANGED <<clock, store, nextOid, entityVars, asyncVars>>

\* time passes
Tick ==
    /\ clock < MaxClock
    /\ clock' = clock + 1
    /\ Idle
    /\ UNCHANGED <<isConnected, store, nextOid, entityVars, asyncVars>>

\* a controller answers a request: the service call's effect on its collection,
\* and the answer.  The services share no collection: a run keeps documents in
\* one collection at a time.
Handle(coll, req, r, answer) ==
    /\ \A c \in Collections \ {coll} : store[c] = <<>>
    /\ DOMAIN r.coll \subseteq DOMAIN store[coll] \/ nextOid <= MaxOid
    /\ store' = [store EXCEPT ![coll] = r.coll]
    /\ nextOid' = IF DOMAIN r.coll \subseteq DOMAIN store[coll] THEN nextOid ELSE nextOid + 1
    /\ request' = Spread(req, [coll |-> coll])
    /\ response' = answer
    /\ steps' = r.steps
    /\ UNCHANGED <<isConnected, clock, entityVars, asyncVars>>

\* a request handled by a server that is up: app.listen follows
\* databaseManager.connect()
Serve(coll, req, r, answer) ==
    /\ isConnected
    /\ Handle(coll, req, r, answer)

\* POST /api/sales
CreateSale(data) ==
    LET r == createSale(store.sales, nextOid, isConnected, data, clock)
    IN  Serve("sales", [op |-> "createSale", data |-> data],
              r, AnswerCreate(r))

\* PUT /api/sales/:id
UpdateSale(id, data) ==
    LET r == updateSale(store.sales, isConnected, id, data, clock)
    IN  Serve("sales", [op |-> "updateSale", id |-> id, data |-> data],
              r, AnswerUpdate(r, "Sale not found"))

\* DELETE /api/sales/:id
DeleteSale(id) ==
    LET r == deleteSale(store.sales, isConnected, id)
    IN  Serve("sales", [op |-> "deleteSale", id |-> id], r, AnswerById(r, "Sale not found"))

\* the sale of the worked example, and the payloads one key away from it
GoodItem == [productId |-> 1, productName |-> "Tea", quantity |-> 2, unitPrice |-> 25]
FreeItem == [productId |-> 1, productName |-> "Tea", quantity |-> 2, unitPrice |-> 0]
BadItem == [productName |-> "Tea", quantity |-> 0, unitPrice |-> -1]
BaseSale ==
    [saleId |-> "S1", saleItems |-> <<GoodItem>>, taxAmount |-> 5, discountAmount |-> 2,
     paidAmount |-> 60]

SaleDeviations ==
    Req("saleId", {"S2", " "})
    \cup Req("saleItems", {<<>>, <<FreeItem>>, <<BadItem>>})
    \cup Req("taxAmount", {-1})
    \cup Req("discountAmount", {100})
    \cup Req("paidAmount", {40})
    \cup Req("subTotal", {999})
    \cup Req("totalAmount", {100})
    \cup Req("changeAmount", {1})
    \cup Req("paymentMethod", {"cash"})

SalePayloads ==
    {BaseSale}
    \cup { Spread(BaseSale, d) : d \in SaleDeviations }
    \cup { [k \in (DOMAIN BaseSale) \ {gone} |-> BaseSale[k]] : gone \in DOMAIN BaseSale }

\* the payloads of an update: the example, and it underpaid, over-discounted,
\* without its saleId, without its items, and with a client-supplied total
SaleUpdates ==
    { d \in SalePayloads :
        \/ d = BaseSale
        \/ "saleId" \notin DOMAIN d
        \/ "saleItems" \notin DOMAIN d
        \/ "totalAmount" \in DOMAIN d
        \/ ("paidAmount" \in DOMAIN d /\ d.paidAmount = 40)
        \/ ("discountAmount" \in DOMAIN d /\ d.discountAmount = 100) }

Next ==
    \/ Connect
    \/ Close
    \/ Tick
    \/ \E data \in SalePayloads : CreateSale(data)
    \/ \E id \in IdArgs, data \in SaleUpdates : UpdateSale(id, data)
    \/ \E id \in IdArgs : DeleteSale(id)

Spec == Init /\ [][Next]_vars

(***************************************************************************)
(* The create and update routes of the five services                       *)
(***************************************************************************)
\* POST /api/customers
CreateCustomer(data) ==
    LET r == createCustomer(store.customers, nextOid, isConnected, data, clock)
    IN  Serve("customers", [op |-> "createCustomer", data |-> data], r, AnswerCreate(r))

\* PUT /api/customers/:id
UpdateCustomer(id, data) ==
    LET r == updateCustomer(store.customers, isConnected, id, data, clock)
    IN  Serve("customers", [op |-> "updateCustomer", id |-> id, data |-> data],
              r, AnswerUpdate(r, "Customer not found"))

\* POST /api/suppliers
CreateSupplier(data) ==
    LET r == createSupplier(store.suppliers, nextOid, isConnected, data, clock)
    IN  Serve("suppliers", [op |-> "createSupplier", data |-> data], r, AnswerCreate(r))

\* PUT /api/suppliers/:id
UpdateSupplier(id, data) ==
    LET r == updateSupplier(store.suppliers, isConnected, id, data, clock)
    IN  Serve("suppliers", [op |-> "updateSupplier", id |-> id, data |-> data],
              r, AnswerUpdate(r, "Supplier not found"))

\* POST /api/products
CreateProduct(data) ==
    LET r == createProduct(store.products, nextOid, isConnected, data, clock)
    IN  Serve("products", [op |-> "createProduct", data |-> data], r, AnswerCreate(r))

\* POST /api/quantities
CreateQuantity(data) ==
    LET r == createQuantity(store.quantities, nextOid, isConnected, data, clock)
    IN  Serve("quantities", [op |-> "createQuantity", data |-> data], r, AnswerCreate(r))

\* e-mail addresses and phone numbers, as the characters they are made of
GoodEmail == <<"a", "@", "b", ".", "c">>
BadEmail == <<"a", "@", "b">>
GoodPhone == <<"+", "9", "4", " ", "7">>
BadPhone == <<"0", "7">>

CustomerPayloads ==
    Both(Opt("contact", {" ", "0771"}), Opt("email", {BadEmail, GoodEmail}))

\* a supplier with or without its name and its contact, and the complete one with
\* a phone number
SupplierPayloads ==
    Both(Opt("name", {"Acme"}), Opt("contact", {"0771"}))
    \cup Both(Req("name", {"Acme"}), Both(Req("contact", {"0771"}),
                                         Req("phone", {BadPhone, GoodPhone})))

\* a product with or without its name and its barcode, and the complete one with
\* a sale price
ProductPayloads ==
    Both(Opt("name", {"Tea"}), Opt("barcode", {"111"}))
    \cup Both(Req("name", {"Tea"}), Both(Req("barcode", {"111"}),
                                        Req("salePrice", {-1, 10})))

QuantityPayloads ==
    Both(Opt("productId", {7}), Opt("quantitySize", {-1, 3}))

\* the example sale, it with a payment method, it without its saleId, it without
\* its items, and a payload that breaks three rules at once
SaleRequests ==
    { d \in SalePayloads :
        \/ d = BaseSale
        \/ "paymentMethod" \in DOMAIN d
        \/ "saleId" \notin DOMAIN d
        \/ "saleItems" \notin DOMAIN d }
    \cup { [totalAmount |-> -1] }

NextCrud ==
    \/ Connect
    \/ Tick
    \/ \E data \in SaleRequests : CreateSale(data)
    \/ \E id \in IdArgs, data \in SaleRequests : UpdateSale(id, data)
    \/ \E data \in CustomerPayloads : CreateCustomer(data)
    \/ \E id \in IdArgs, data \in CustomerPayloads : UpdateCustomer(id, data)
    \/ \E data \in SupplierPayloads : CreateSupplier(data)
    \/ \E id \in IdArgs, data \in SupplierPayloads : UpdateSupplier(id, data)
    \/ \E data \in ProductPayloads : CreateProduct(data)
    \/ \E data \in QuantityPayloads : CreateQuantity(data)

SpecCrud == Init /\ [][NextCrud]_vars

(***************************************************************************)
(* Reads, deletes and the remaining updates.  These controllers are taken  *)
(* as the modules they are: they answer whatever the gateway's state, and  *)
(* a service call on a gateway that is not connected throws.               *)
(***************************************************************************)
\* PUT /api/products/:id
UpdateProduct(id, data) ==
    LET r == updateProduct(store.products, store.quantities, isConnected, id, data, clock)
    IN  Handle("products", [op |-> "updateProduct", id |-> id, data |-> data],
               r, AnswerUpdate(r, "Product not found"))

\* PUT /api/quantities/:id
UpdateQuantity(id, data) ==
    LET r == updateQuantity(store.quantities, isConnected, id, data, clock)
    IN  Handle("quantities", [op |-> "updateQuantity", id |-> id, data |-> data],
               r, AnswerUpdate(r, "Quantity not found"))

\* DELETE /api/customers/:id
DeleteCustomer(id) ==
    LET r == deleteCustomer(store.customers, isConnected, id)
    IN  Handle("customers", [op |-> "deleteCustomer", id |-> id],
               r, AnswerById(r, "Customer not found"))

\* DELETE /api/sales/:id, whatever the gateway's state
RemoveSale(id) ==
    LET r == deleteSale(store.sales, isConnected, id)
    IN  Handle("sales", [op |-> "deleteSale", id |-> id], r, AnswerById(r, "Sale not found"))

\* GET /api/customers/:id
GetCustomerById(id) ==
    LET r == getCustomerById(store.customers, isConnected, id, clock)
    IN  Handle("customers", [op |-> "getCustomerById", id |-> id],
               r, AnswerById(r, "Customer not found"))

\* GET /api/customers/mysql/:mysqlId
GetCustomerByMysqlId(mysqlId) ==
    LET r == getCustomerByMysqlId(store.customers, isConnected, mysqlId, clock)
    IN  Handle("customers", [op |-> "getCustomerByMysqlId", mysqlId |-> mysqlId],
               r, AnswerById(r, "Customer not found"))

\* GET /api/sales/:id
GetSaleById(id) ==
    LET r == getSaleById(store.sales, isConnected, id, clock)
    IN  Handle("sales", [op |-> "getSaleById", id |-> id], r, AnswerById(r, "Sale not found"))

\* GET /api/sales/mysql/:mysqlId
GetSaleByMysqlId(mysqlId) ==
    LET r == getSaleByMysqlId(store.sales, isConnected, mysqlId, clock)
    IN  Handle("sales", [op |-> "getSaleByMysqlId", mysqlId |-> mysqlId],
               r, AnswerById(r, "Sale not found"))

\* records with and without a legacy id, and the legacy ids asked for
ProductRecords ==
    Both(Req("name", {"Tea"}), Both(Req("barcode", {"111"}), Opt("mysqlId", {7})))
    \cup Req("name", {"Tea"})
CustomerRecords == Both(Opt("contact", {"0771"}), Opt("mysqlId", {5}))
SaleRecords == { BaseSale, Spread(BaseSale, [mysqlId |-> 5]) }
ProductIds == {7, 8}
LegacyIds == {5, 6}

NextOps ==
    \/ Connect
    \/ Close
    \/ \E data \in ProductRecords : CreateProduct(data)
    \/ \E id \in ProductIds, data \in ProductRecords : UpdateProduct(id, data)
    \/ \E data \in QuantityPayloads : CreateQuantity(data)
    \/ \E id \in IdArgs, data \in QuantityPayloads : UpdateQuantity(id, data)
    \/ \E data \in CustomerRecords : CreateCustomer(data)
    \/ \E id \in IdArgs, data \in CustomerRecords : UpdateCustomer(id, data)
    \/ \E id \in IdArgs : DeleteCustomer(id)
    \/ \E id \in IdArgs : GetCustomerById(id)
    \/ \E mysqlId \in LegacyIds : GetCustomerByMysqlId(mysqlId)
    \/ \E data \in SaleRecords : CreateSale(data)
    \/ \E id \in IdArgs, data \in SaleRecords : UpdateSale(id, data)
    \/ \E id \in IdArgs : RemoveSale(id)
    \/ \E id \in IdArgs : GetSaleById(id)
    \/ \E mysqlId \in LegacyIds : GetSaleByMysqlId(mysqlId)

SpecOps == Init /\ [][NextOps]_vars

(***************************************************************************)
(* Lists and analytics: one request answered by a running server that      *)
(* holds sales created through createSale.                                 *)
(***************************************************************************)
\* a date sent as JSON text: the ISO text of the instant t
DateText(t) == [kind |-> "text", t |-> t]

\* the sales in the store: without and with a customer, with a sale date of the
\* caller's, with two line items
ListedSales ==
    { BaseSale,
      Spread(BaseSale, [customerId |-> 7]),
      Spread(BaseSale, [customerId |-> 7, saleDate |-> DateText(1)]),
      Spread(BaseSale, [customerId |-> 8, saleItems |-> <<GoodItem, GoodItem>>,
                        paidAmount |-> 200]) }

\* the clock reading at which the n-th sale is created
CreatedAt(n) == IF n < MaxClock THEN n ELSE MaxClock

\* the sales collection after createSale has stored payloads[1..n]
RECURSIVE SalesCreated(_, _)
SalesCreated(payloads, n) ==
    IF n = 0 THEN <<>>
    ELSE createSale(SalesCreated(payloads, n - 1), n, TRUE, payloads[n], CreatedAt(n)).coll

\* the customers in the store: a contact alone, with an e-mail, with a sale id
SearchedCustomers ==
    { [contact |-> "0771"],
      [contact |-> "0771", email |-> <<"a", "@", "b", ".", "c">>],
      [contact |-> "0112", saleId |-> "S1"] }

\* the customers collection after createCustomer has stored payloads[1..n]
RECURSIVE CustomersCreated(_, _)
CustomersCreated(payloads, n) ==
    IF n = 0 THEN <<>>
    ELSE createCustomer(CustomersCreated(payloads, n - 1), n, TRUE, payloads[n],
                        CreatedAt(n)).coll

InitList ==
    /\ isConnected = TRUE
    /\ clock = MaxClock
    /\ \E n \in 0..MaxSales :
           /\ \/ \E payloads \in [1..n -> ListedSales] :
                     store = [c \in Collections |->
                                 IF c = "sales" THEN SalesCreated(payloads, n) ELSE <<>>]
              \/ \E payloads \in [1..n -> SearchedCustomers] :
                     store = [c \in Collections |->
                                 IF c = "customers"
                                 THEN CustomersCreated(payloads, n) ELSE <<>>]
           /\ nextOid = n + 1
    /\ request = NoRequest
    /\ response = NoResponse
    /\ steps = <<>>
    /\ sale = NoSale
    /\ validation = NoValidation
    /\ NoCalls

\* GET /api/sales?page=&limit=&sortBy=&sortOrder=&startDate=&endDate=&customerId=
GetAllSales(query) ==
    /\ request = NoRequest
    /\ LET options == ListOptions(query)
       IN  \E order \in SortedOrders(store.sales, SaleFilter(options),
                                     options.sortBy, options.sortOrder) :
               LET r == getAllSales(store.sales, isConnected, options, order, clock)
               IN  Handle("sales", [op |-> "getAllSales", query |-> query], r,
                          AnswerList(r))

\* GET /api/sales/analytics?startDate=&endDate=
GetSalesAnalytics(query) ==
    LET r == getSalesAnalytics(store.sales, isConnected, AnalyticsOptions(query))
    IN  /\ request = NoRequest
        /\ Handle("sales", [op |-> "getSalesAnalytics", query |-> query], r, AnswerList(r))

\* GET /api/customers/search/:query?page=&limit=
SearchCustomers(text, query) ==
    /\ request = NoRequest
    /\ LET options == SearchOptions(query)
           filter  == SearchFilter(text, {"contact", "email", "saleId"})
       IN  \E order \in SortedOrders(store.customers, filter, "timestamp", -1) :
               LET r == searchCustomers(store.customers, isConnected, text, options,
                                        order, clock)
               IN  Handle("customers",
                          [op |-> "searchCustomers", text |-> text, query |-> query], r,
                          AnswerList(r))

\* query strings: paging and sorting without a filter, filters with and without
\* a page size
PageQueries ==
    Both(Opt("page", {<<"2">>, <<"0">>}),
    Both(Opt("limit", {<<"1">>, <<"2">>, <<"-", "2">>, <<"1", "0", "0", "0">>, <<"a">>}),
    Both(Opt("sortBy", {"totalAmount", "saleDate", "customerId"}),
         Opt("sortOrder", {<<"1">>}))))
RangeQueries ==
    Both(Opt("startDate", { DateText(t) : t \in Times }),
         Opt("endDate", { DateText(t) : t \in Times }))
FilterQueries ==
    Both(RangeQueries,
    Both(Opt("customerId", {<<"7">>}),
    Both(Opt("page", {<<"2">>}),
         Opt("limit", {<<"1">>}))))
ListQueries == PageQueries \cup FilterQueries

\* what is searched for, and the paging of a search
SearchTexts == { <<"7", "7">>, <<"A", "@">>, <<"s", "1">>, <<"1", ".">>, <<"z">> }
SearchQueries ==
    Both(Opt("page", {<<"2">>}), Opt("limit", {<<"1">>, <<"-", "2">>}))

NextList ==
    \/ \E query \in ListQueries : GetAllSales(query)
    \/ \E query \in RangeQueries : GetSalesAnalytics(query)
    \/ \E text \in SearchTexts, query \in SearchQueries : SearchCustomers(text, query)

SpecList == InitList /\ [][NextList]_vars

(***************************************************************************)
(* Entity level: one Sale taken through create / calculateTotals /         *)
(* validate, for every input of SaleInputs.                                *)
(***************************************************************************)
InitModel ==
    /\ isConnected = FALSE
    /\ clock \in Times
    /\ store = [c \in Collections |-> <<>>]
    /\ nextOid = 1
    /\ request \in [op : {"Sale.create"}, data : SaleInputs]
    /\ response = NoResponse
    /\ steps = <<>>
    /\ sale = NoSale
    /\ validation = NoValidation
    /\ NoCalls

\* const sale = Sale.create(data)
Construct ==
    /\ sale = NoSale
    /\ sale' = Sale_create(request.data, clock)
    /\ validation' = NoValidation
    /\ steps' = <<"create">>
    /\ UNCHANGED <<request, serviceVars, asyncVars>>

\* sale.calculateTotals()
CalculateTotals ==
    /\ sale # NoSale
    /\ sale' = calculateTotals(sale)
    /\ validation' = NoValidation
    /\ steps' = <<"calculateTotals">>
    /\ UNCHANGED <<request, serviceVars, asyncVars>>

\* const validation = sale.validate()
Validate ==
    /\ sale # NoSale
    /\ validation' = Sale_validate(sale)
    /\ steps' = <<"validate">>
    /\ UNCHANGED <<sale, request, serviceVars, asyncVars>>

NextModel ==
    \/ Construct
    \/ CalculateTotals
    \/ Validate

SpecModel == InitModel /\ [][NextModel]_vars

(***************************************************************************)
(* Entity level: an instance of Sale, Customer or Supplier, built by       *)
(* create or read back from its stored document, then taken through        *)
(* toDocument / fromDocument and, for a Sale, through addItem.             *)
(***************************************************************************)
Entities == {"Sale", "Customer", "Supplier"}

\* <Entity>.create(data)
Created(entity, data, now) ==
    CASE entity = "Sale"     -> Sale_create(data, now)
      [] entity = "Customer" -> Customer_create(data, now)
      [] entity = "Supplier" -> Supplier_create(data, now)

\* instance.toDocument()
ToDocument(entity, e) ==
    CASE entity = "Sale"     -> Sale_toDocument(e)
      [] entity = "Customer" -> Customer_toDocument(e)
      [] entity = "Supplier" -> Supplier_toDocument(e)

\* <Entity>.fromDocument(doc)
FromDocument(entity, doc, now) ==
    CASE entity = "Sale"     -> Sale_fromDocument(doc, now)
      [] entity = "Customer" -> Customer_fromDocument(doc, now)
      [] entity = "Supplier" -> Supplier_fromDocument(doc, now)

\* what the instances are built from
EntitySales ==
    Both(Opt("saleId", {"S1"}),
    Both(Opt("saleItems", ItemLists),
    Both(Opt("taxAmount", {5}),
         Opt("paidAmount", {60}))))
EntityInputs ==
    [entity : {"Sale"}, data : EntitySales]
    \cup [entity : {"Customer"}, data : CustomerPayloads]
    \cup [entity : {"Supplier"}, data : SupplierPayloads]

InitEntity ==
    /\ isConnected = FALSE
    /\ clock \in Times
    /\ store = [c \in Collections |-> <<>>]
    /\ nextOid = 1
    /\ \E in \in EntityInputs, op \in {"create", "fromDocument"} :
           request = [op |-> op, entity |-> in.entity, data |-> in.data]
    /\ response = NoResponse
    /\ steps = <<>>
    /\ sale = NoSale
    /\ validation = NoValidation
    /\ NoCalls

\* const e = <Entity>.create(data)
Build ==
    /\ sale = NoSale
    /\ request.op = "create"
    /\ sale' = Created(request.entity, request.data, clock)
    /\ steps' = <<"create">>
    /\ UNCHANGED <<request, validation, serviceVars, asyncVars>>

\* const e = <Entity>.fromDocument(doc), doc being the document of a created
\* instance as the store returns it, under the _id the store gave it
Load ==
    /\ sale = NoSale
    /\ request.op = "fromDocument"
    /\ \E oid \in 1..MaxOid :
           sale' = FromDocument(request.entity,
                                Spread(ToDocument(request.entity,
                                                  Created(request.entity, request.data, clock)),
                                       [_id |-> oid]),
                                clock)
    /\ steps' = <<"fromDocument">>
    /\ UNCHANGED <<request, validation, serviceVars, asyncVars>>

\* <Entity>.fromDocument(e.toDocument())
RoundTrip ==
    /\ sale # NoSale
    /\ sale' = FromDocument(request.entity, ToDocument(request.entity, sale), clock)
    /\ steps' = <<"roundTrip">>
    /\ UNCHANGED <<request, validation, serviceVars, asyncVars>>

\* sale.addItem(itemData)
AddItem(itemData) ==
    /\ sale # NoSale
    /\ request.entity = "Sale"
    /\ Len(sale.saleItems) <= MaxItems
    /\ sale' = addItem(sale, itemData)
    /\ steps' = <<"addItem">>
    /\ UNCHANGED <<request, validation, serviceVars, asyncVars>>

NextEntity ==
    \/ Build
    \/ Load
    \/ RoundTrip
    \/ \E itemData \in ItemInputs : AddItem(itemData)

SpecEntity == InitEntity /\ [][NextEntity]_vars

(***************************************************************************)
(* Every route of the customers, suppliers, sales and quantities           *)
(* collections, one request at a time, in any gateway state.               *)
(***************************************************************************)
\* DELETE /api/suppliers/:id
DeleteSupplier(id) ==
    LET r == deleteSupplier(store.suppliers, isConnected, id)
    IN  Handle("suppliers", [op |-> "deleteSupplier", id |-> id],
               r, AnswerById(r, "Supplier not found"))

\* DELETE /api/quantities/:id
DeleteQuantity(id) ==
    LET r == deleteQuantity(store.quantities, isConnected, id)
    IN  Handle("quantities", [op |-> "deleteQuantity", id |-> id],
               r, AnswerById(r, "Quantity not found"))

\* PUT /api/suppliers/:id, whatever the gateway's state
ReviseSupplier(id, data) ==
    LET r == updateSupplier(store.suppliers, isConnected, id, data, clock)
    IN  Handle("suppliers", [op |-> "updateSupplier", id |-> id, data |-> data],
               r, AnswerUpdate(r, "Supplier not found"))

NextFrame ==
    \/ Connect
    \/ Close
    \/ \E data \in CustomerRecords : CreateCustomer(data)
    \/ \E id \in IdArgs, data \in CustomerRecords : UpdateCustomer(id, data)
    \/ \E id \in IdArgs : DeleteCustomer(id)
    \/ \E id \in IdArgs : GetCustomerById(id)
    \/ \E mysqlId \in LegacyIds : GetCustomerByMysqlId(mysqlId)
    \/ SearchCustomers(<<"0", "7", "7">>, <<>>)
    \/ \E data \in SaleRecords : CreateSale(data)
    \/ \E id \in IdArgs, data \in SaleRecords : UpdateSale(id, data)
    \/ \E id \in IdArgs : RemoveSale(id)
    \/ \E id \in IdArgs : GetSaleById(id)
    \/ \E mysqlId \in LegacyIds : GetSaleByMysqlId(mysqlId)
    \/ GetAllSales(<<>>)
    \/ GetSalesAnalytics(<<>>)
    \/ \E data \in SupplierPayloads : CreateSupplier(data)
    \/ \E id \in IdArgs, data \in SupplierPayloads : ReviseSupplier(id, data)
    \/ \E id \in IdArgs : DeleteSupplier(id)
    \/ \E data \in QuantityPayloads : CreateQuantity(data)
    \/ \E id \in IdArgs, data \in QuantityPayloads : UpdateQuantity(id, data)
    \/ \E id \in IdArgs : DeleteQuantity(id)

SpecFrame == Init /\ [][NextFrame]_vars

(***************************************************************************)
(* The persistence gateway under concurrent callers: connect() of the two  *)
(* DatabaseManager files, and connectDB with the connection middleware of  *)
(* api/index.js.  A step runs a caller's code up to its next await, or     *)
(* settles a pending driver call and runs the continuations that its       *)
(* promise releases (they run before any other caller's code).             *)
(***************************************************************************)
MaxCallers == 3   \* callers whose calls can be in flight together
MaxClients == 3   \* MongoClients a run constructs

Callers == 1..MaxCallers
Builds == {"serverless", "server"}
Attempts == 1..MaxClients

MsgUriUndefined == "MONGODB_URI environment variable is not defined"
MsgRefused == "connect ECONNREFUSED"
MsgIndexes == "createIndex failed"
MsgConnectionFailed == "Database connection failed"

NoCall == [at |-> "idle"]

\* a call waiting for attempt n to settle
Awaiting(kind, n, started) ==
    [at |-> "awaiting", kind |-> kind, attempt |-> n, started |-> started]

\* connections that were opened or are being opened
Live == { n \in DOMAIN clients : clients[n] # "refused" }

\* attempts that have not settled
Pending == { n \in DOMAIN clients : clients[n] \in {"connecting", "indexing"} }

\* databaseManager.getDatabase()
getDatabase(connected, m) ==
    IF ~connected \/ (m.build = "serverless" /\ m.db = Null)
    THEN [threw |-> TRUE, error |-> MsgNotConnected]
    ELSE [threw |-> FALSE, db |-> m.db]

\* the catch block of _createConnection forgets the client and the db
createConnection_keepsClient(m) == m
createConnection_catch(m) == [m EXCEPT !.client = Null, !.db = Null]

\* the catch block of connect(): isConnected is false after it
connect_catch(m) ==
    IF m.build = "serverless"
    THEN [createConnection_catch(m) EXCEPT !.connectionPromise = Null]
    ELSE m

\* connect(), up to its first await: the fields after it, the attempt the
\* call awaits (Null: it has settled) and the error it was rejected with
connect(connected, m, cl) ==
    LET n == Len(cl) + 1
        same == [isConnected |-> connected, manager |-> m, clients |-> cl,
                 awaits |-> Null, started |-> FALSE, error |-> ""]
    IN  IF m.build = "server"
        THEN [same EXCEPT !.manager = [m EXCEPT !.client = n],
                          !.clients = Append(cl, "connecting"),
                          !.awaits = n, !.started = TRUE]
        ELSE IF connected /\ m.client # Null THEN same
        ELSE IF m.connectionPromise # Null
        THEN [same EXCEPT !.awaits = m.connectionPromise]
        ELSE IF ~m.uri
        THEN [same EXCEPT !.isConnected = FALSE, !.manager = connect_catch(m),
                          !.error = MsgUriUndefined]
        ELSE [same EXCEPT !.manager = [m EXCEPT !.client = n, !.connectionPromise = n],
                          !.clients = Append(cl, "connecting"),
                          !.awaits = n, !.started = TRUE]

\* connectDB sets the module's flag when connect() resolved
connectDB_always(flag, error) == TRUE
connectDB(flag, error) == flag \/ error = ""

\* what a call comes to when connect() has settled for it: for a request, the
\* middleware calls next() and the route handler asks for its collection, or
\* the middleware answers 500
Settled(call, error, connected, m) ==
    LET base == [at |-> "settled", kind |-> call.kind, attempt |-> call.attempt,
                 started |-> call.started, error |-> error]
    IN  IF call.kind = "connect"
        THEN Spread(base, [ran |-> FALSE, response |-> NoResponse])
        ELSE IF error = ""
        THEN Spread(base, [ran |-> TRUE, collection |-> getDatabase(connected, m),
                           response |-> NoResponse])
        ELSE Spread(base, [ran |-> FALSE,
                           response |-> [status |-> 500,
                                         body |-> [success |-> FALSE,
                                                   error |-> MsgConnectionFailed,
                                                   message |-> error]]])

\* attempt n settles: every call that awaits it settles with it
Release(n, error, connected, m) ==
    /\ calls' = [c \in Callers |->
                    IF calls[c].at = "awaiting" /\ calls[c].attempt = n
                    THEN Settled(calls[c], error, connected, m)
                    ELSE calls[c]]
    /\ apiIsConnected' =
           IF \E c \in Callers : /\ calls[c].at = "awaiting"
                                 /\ calls[c].attempt = n
                                 /\ calls[c].kind = "request"
           THEN connectDB(apiIsConnected, error)
           ELSE apiIsConnected

\* a module is loaded: one of the two DatabaseManager files, with or without
\* MONGODB_URI in the environment
InitGateway ==
    /\ isConnected = FALSE
    /\ clock = 1
    /\ store = [c \in Collections |-> <<>>]
    /\ nextOid = 1
    /\ request = NoRequest
    /\ response = NoResponse
    /\ steps = <<>>
    /\ sale = NoSale
    /\ validation = NoValidation
    /\ manager \in { Spread(NoManager, [build |-> b, uri |-> u]) :
                        b \in Builds, u \in BOOLEAN }
    /\ clients = <<>>
    /\ calls = [c \in Callers |-> NoCall]
    /\ apiIsConnected = FALSE

gatewayFrame == <<clock, store, nextOid, request, response, steps, entityVars>>

\* caller c calls the gateway's connect()
CallConnect(c) ==
    LET r == connect(isConnected, manager, clients)
        call == Awaiting("connect", r.awaits, r.started)
    IN  /\ calls[c].at # "awaiting"
        /\ Len(r.clients) <= MaxClients
        /\ isConnected' = r.isConnected
        /\ manager' = r.manager
        /\ clients' = r.clients
        /\ calls' = [calls EXCEPT ![c] =
                        IF r.awaits # Null THEN call
                        ELSE Settled(call, r.error, r.isConnected, r.manager)]
        /\ UNCHANGED <<apiIsConnected, gatewayFrame>>

\* a request arrives for caller c at the serverless entry point: the
\* connection middleware awaits connectDB()
Arrive(c) ==
    LET r == connect(isConnected, manager, clients)
        call == Awaiting("request", r.awaits, r.started)
    IN  /\ calls[c].at # "awaiting"
        /\ IF apiIsConnected
           THEN /\ calls' = [calls EXCEPT ![c] =
                                Settled(Awaiting("request", Null, FALSE), "",
                                        isConnected, manager)]
                /\ UNCHANGED <<isConnected, manager, clients, apiIsConnected>>
           ELSE /\ Len(r.clients) <= MaxClients
                /\ isConnected' = r.isConnected
                /\ manager' = r.manager
                /\ clients' = r.clients
                /\ calls' = [calls EXCEPT ![c] =
                                IF r.awaits # Null THEN call
                                ELSE Settled(call, r.error, r.isConnected, r.manager)]
                /\ apiIsConnected' =
                       IF r.awaits # Null THEN apiIsConnected
                       ELSE connectDB(apiIsConnected, r.error)
        /\ UNCHANGED gatewayFrame

\* client.connect() of attempt n resolves: db and isConnected are set, and
\* initializeCollections() is awaited
ClientConnected(n) ==
    /\ n \in DOMAIN clients
    /\ clients[n] = "connecting"
    /\ clients' = [clients EXCEPT ![n] = "indexing"]
    /\ manager' = [manager EXCEPT !.db = manager.client]
    /\ isConnected' = TRUE
    /\ UNCHANGED <<calls, apiIsConnected, gatewayFrame>>

\* client.connect() of attempt n is rejected
ClientRefused(n) ==
    /\ n \in DOMAIN clients
    /\ clients[n] = "connecting"
    /\ clients' = [clients EXCEPT ![n] = "refused"]
    /\ manager' = connect_catch(manager)
    /\ isConnected' = FALSE
    /\ Release(n, MsgRefused, FALSE, manager')
    /\ UNCHANGED gatewayFrame

\* initializeCollections() of attempt n settles: the serverless file logs a
\* failure and goes on, the server file throws it
CollectionsInitialized(n, ok) ==
    LET failed == manager.build = "server" /\ ~ok
    IN  /\ n \in DOMAIN clients
        /\ clients[n] = "indexing"
        /\ clients' = [clients EXCEPT ![n] = "open"]
        /\ manager' = [manager EXCEPT !.connectionPromise = Null]
        /\ isConnected' = (isConnected /\ ~failed)
        /\ Release(n, IF failed THEN MsgIndexes ELSE "", isConnected', manager')
        /\ UNCHANGED gatewayFrame

NextGateway ==
    \/ \E c \in Callers : CallConnect(c)
    \/ \E c \in Callers : Arrive(c)
    \/ \E n \in Attempts : ClientConnected(n)
    \/ \E n \in Attempts : ClientRefused(n)
    \/ \E n \in Attempts, ok \in BOOLEAN : CollectionsInitialized(n, ok)

SpecGateway == InitGateway /\ [][NextGateway]_vars

\* the serverless file is the one loaded
InitServerless ==
    /\ InitGateway
    /\ manager.build = "serverless"

SpecServerless == InitServerless /\ [][NextGateway]_vars

(***************************************************************************)
(* Service calls that overlap: an update is its write, then its re-read;   *)
(* a list is its find, then its count; a create and a delete make one call *)
(* on the collection.  Between the two calls of one operation the calls of *)
(* the others can run.                                                     *)
(***************************************************************************)
MaxOverlap == 2   \* service calls that can be in flight together

\* the collections the overlapping calls work on, and what callers send
RaceCollections == {"sales", "customers"}
RacePayloads(coll) ==
    IF coll = "sales"
    THEN { BaseSale, Spread(BaseSale, [customerId |-> 7, paidAmount |-> 70]) }
    ELSE { [contact |-> "0771"], [contact |-> "0772", email |-> GoodEmail] }
RaceIds == { ObjectId(n) : n \in 1..MaxOid }
Racers == 1..MaxOverlap

\* the service methods, by collection
Service_create(coll, docs, oid, connected, data, now) ==
    IF coll = "sales" THEN createSale(docs, oid, connected, data, now)
    ELSE createCustomer(docs, oid, connected, data, now)
Service_update(coll, docs, connected, id, data, now) ==
    IF coll = "sales" THEN updateSale(docs, connected, id, data, now)
    ELSE updateCustomer(docs, connected, id, data, now)
Service_delete(coll, docs, connected, id) ==
    IF coll = "sales" THEN deleteSale(docs, connected, id)
    ELSE deleteCustomer(docs, connected, id)
Service_getById(coll, docs, connected, id, now) ==
    IF coll = "sales" THEN getSaleById(docs, connected, id, now)
    ELSE getCustomerById(docs, connected, id, now)
Service_fromDocument(coll, doc, now) ==
    IF coll = "sales" THEN Sale_fromDocument(doc, now) ELSE Customer_fromDocument(doc, now)

\* sale.toDocument() / customer.toDocument() of an update: the $set it sends
Service_document(coll, data, now) ==
    IF coll = "sales" THEN Sale_toDocument(calculateTotals(Sale_create(data, now)))
    ELSE Customer_toDocument(Customer_create(data, now))

\* getAllSales() / searchCustomers('077') with the default options
Service_list(coll, docs, connected, order, now) ==
    IF coll = "sales" THEN getAllSales(docs, connected, ListOptions(<<>>), order, now)
    ELSE searchCustomers(docs, connected, <<"0", "7", "7">>, SearchOptions(<<>>), order, now)
Service_orders(coll, docs) ==
    IF coll = "sales"
    THEN SortedOrders(docs, SaleFilter(ListOptions(<<>>)), ListOptions(<<>>).sortBy,
                      ListOptions(<<>>).sortOrder)
    ELSE SortedOrders(docs, SearchFilter(<<"0", "7", "7">>, {"contact", "email", "saleId"}),
                      "timestamp", -1)

\* the not-found message of a collection's controllers
NotFound(coll) == IF coll = "sales" THEN "Sale not found" ELSE "Customer not found"

\* a running server, nothing stored, no call made
InitRace ==
    /\ isConnected = TRUE
    /\ clock = 1
    /\ store = [c \in Collections |-> <<>>]
    /\ nextOid = 1
    /\ request = NoRequest
    /\ response = NoResponse
    /\ steps = <<>>
    /\ sale = NoSale
    /\ validation = NoValidation
    /\ manager = NoManager
    /\ clients = <<>>
    /\ calls = [c \in Racers |-> NoCall]
    /\ apiIsConnected = FALSE

raceFrame == <<isConnected, clock, entityVars, manager, clients, apiIsConnected>>

\* the services share no collection: a run keeps documents in one collection
Alone(coll) == \A other \in Collections \ {coll} : store[other] = <<>>

\* caller c's call has returned or thrown: the controller answers it
Settle(c, req, r, answer) ==
    /\ calls' = [calls EXCEPT ![c] = NoCall]
    /\ request' = Spread(req, [caller |-> c])
    /\ response' = answer
    /\ steps' = r.steps

\* caller c's call goes on to its second call on the collection
Await(c, call) ==
    /\ calls' = [calls EXCEPT ![c] = call]
    /\ UNCHANGED <<request, response, steps>>

\* createSale(data) / createCustomer(data)
CreateRecord(c, coll, data) ==
    LET r == Service_create(coll, store[coll], nextOid, isConnected, data, clock)
    IN  /\ calls[c] = NoCall
        /\ Alone(coll)
        /\ nextOid <= MaxOid
        /\ store' = [store EXCEPT ![coll] = r.coll]
        /\ nextOid' = nextOid + 1
        /\ Settle(c, [op |-> "create", coll |-> coll, data |-> data], r, AnswerCreate(r))
        /\ UNCHANGED raceFrame

\* deleteSale(id) / deleteCustomer(id)
DeleteRecord(c, coll, id) ==
    LET r == Service_delete(coll, store[coll], isConnected, id)
    IN  /\ calls[c] = NoCall
        /\ store[coll] # <<>>
        /\ store' = [store EXCEPT ![coll] = r.coll]
        /\ Settle(c, [op |-> "delete", coll |-> coll, id |-> id], r,
                  AnswerById(r, NotFound(coll)))
        /\ UNCHANGED <<nextOid, raceFrame>>

\* updateSale(id, data) / updateCustomer(id, data) up to the end of its
\* updateOne: it throws, or awaits getSaleById / getCustomerById
StartUpdate(c, coll, id, data) ==
    LET r == Service_update(coll, store[coll], isConnected, id, data, clock)
        req == [op |-> "update", coll |-> coll, id |-> id, data |-> data]
    IN  /\ calls[c] = NoCall
        /\ store[coll] # <<>>
        /\ store' = [store EXCEPT ![coll] = r.coll]
        /\ IF r.threw
           THEN Settle(c, req, r, AnswerUpdate(r, NotFound(coll)))
           ELSE Await(c, [at |-> "reread", request |-> req, written |-> r])
        /\ UNCHANGED <<nextOid, raceFrame>>

\* the getSaleById / getCustomerById of an update answers
FinishUpdate(c) ==
    /\ calls[c] # NoCall
    /\ calls[c].at = "reread"
    /\ LET call == calls[c]
           coll == call.request.coll
           g == Service_getById(coll, store[coll], isConnected, call.request.id, clock)
           r == IF g.threw THEN Throw(g.error, store[coll], call.written.steps)
                ELSE Return([call.written.result EXCEPT !.data = g.result.data],
                            store[coll], call.written.steps)
       IN  Settle(c, call.request, r, AnswerUpdate(r, NotFound(coll)))
    /\ UNCHANGED <<store, nextOid, raceFrame>>

\* a list or search up to the end of its find(): it throws, or awaits
\* countDocuments(filter)
StartList(c, coll) ==
    /\ calls[c] = NoCall
    /\ store[coll] # <<>>
    /\ \E order \in Service_orders(coll, store[coll]) :
           LET r == Service_list(coll, store[coll], isConnected, order, clock)
               req == [op |-> "list", coll |-> coll]
           IN  IF r.threw
               THEN Settle(c, req, r, AnswerList(r))
               ELSE Await(c, [at |-> "count", request |-> req, found |-> r])
    /\ UNCHANGED <<store, nextOid, raceFrame>>

\* the countDocuments(filter) of a list or search answers
FinishList(c) ==
    /\ calls[c] # NoCall
    /\ calls[c].at = "count"
    /\ LET call == calls[c]
           coll == call.request.coll
           page == call.found.result.pagination
           totalCount == CountDocuments(store[coll], call.found.steps[2].filter)
           r == Return(Listing(call.found.result.data, page.page, page.limit, totalCount),
                       store[coll], call.found.steps)
       IN  Settle(c, call.request, r, AnswerList(r))
    /\ UNCHANGED <<store, nextOid, raceFrame>>

NextRace ==
    \/ \E c \in Racers, coll \in RaceCollections :
           \E data \in RacePayloads(coll) : CreateRecord(c, coll, data)
    \/ \E c \in Racers, coll \in RaceCollections, id \in RaceIds : DeleteRecord(c, coll, id)
    \/ \E c \in Racers, coll \in RaceCollections, id \in RaceIds :
           \E data \in RacePayloads(coll) : StartUpdate(c, coll, id, data)
    \/ \E c \in Racers : FinishUpdate(c)
    \/ \E c \in Racers, coll \in RaceCollections : StartList(c, coll)
    \/ \E c \in Racers : FinishList(c)

SpecRace == InitRace /\ [][NextRace]_vars

(***************************************************************************)
(* Claims about the persistence gateway                                    *)
(***************************************************************************)
\* C23: in every interleaving of connect() calls at most one underlying
\* connection exists at a time: a call on a connected gateway or during an
\* attempt in flight constructs no further client.
C23_OneConnection == Cardinality(Live) <= 1

\* a step on which client.connect() of an attempt in flight is rejected
AttemptFails ==
    \E n \in DOMAIN clients : clients[n] = "connecting" /\ clients'[n] = "refused"

\* C28: when an attempt in flight fails on the serverless gateway, every call
\* awaiting it is rejected with the failure, the gateway is back in the
\* disconnected state (isConnected false, no client, no db, no pending
\* attempt) and the next connect() starts a fresh attempt; getCollection
\* throws 'Database not connected' while no attempt has succeeded; no call
\* is left waiting for an attempt that has settled.
C28_FailedAttempt ==
    /\ [][ AttemptFails =>
              /\ \A c \in Callers :
                     calls[c].at = "awaiting" =>
                         calls'[c].at = "settled" /\ calls'[c].error = MsgRefused
              /\ ~isConnected'
              /\ manager'.client = Null
              /\ manager'.db = Null
              /\ manager'.connectionPromise = Null
              /\ connect(isConnected', manager', clients').started ]_vars
    /\ []( (\A n \in DOMAIN clients : clients[n] \in {"connecting", "refused"})
              => /\ getDatabase(isConnected, manager).threw
                 /\ getDatabase(isConnected, manager).error = MsgNotConnected )
    /\ [](\A c \in Callers : calls[c].at = "awaiting" => calls[c].attempt \in Pending)

\* the caller that started an attempt and a caller that awaited it have both
\* been rejected with its failure, and the gateway is disconnected
C28_Witness ==
    \E a, b \in Callers :
        /\ calls[a].at = "settled" /\ calls[a].started /\ calls[a].error = MsgRefused
        /\ calls[b].at = "settled" /\ ~calls[b].started /\ calls[b].error = MsgRefused
        /\ calls[a].attempt = calls[b].attempt
        /\ manager.build = "serverless"
        /\ ~isConnected /\ manager.client = Null

\* the requests the connection middleware has let through or answered
Answered == { c \in Callers : calls[c].at = "settled" /\ calls[c].kind = "request" }

\* C29: at the serverless entry point a route handler runs only once a
\* connection is established (its getCollection finds the db of an opened
\* client); a request whose connectDB fails is answered 500 'Database
\* connection failed' and its handler does not run; the module's flag is
\* set only by a successful connect, so a later request connects again.
C29_ConnectBeforeHandler ==
    /\ [](\A c \in Answered :
             /\ calls[c].ran =>
                    /\ calls[c].error = ""
                    /\ ~calls[c].collection.threw
                    /\ clients[calls[c].collection.db] \in {"indexing", "open"}
             /\ calls[c].error # "" =>
                    /\ ~calls[c].ran
                    /\ calls[c].response.status = 500
                    /\ calls[c].response.body.success = FALSE
                    /\ calls[c].response.body.error = MsgConnectionFailed
                    /\ calls[c].response.body.message = calls[c].error)
    /\ [](apiIsConnected => ~getDatabase(isConnected, manager).threw)
    /\ [][ AttemptFails => ~apiIsConnected' ]_vars

\* one request was answered 500 for a failed attempt, a later one connected
\* and its handler ran
C29_Witness ==
    \E a, b \in Answered :
        /\ calls[a].response.status = 500
        /\ calls[a].error = MsgRefused
        /\ calls[b].ran
        /\ calls[b].attempt > calls[a].attempt
        /\ manager.build = "serverless"

(***************************************************************************)
(* Claim about what an operation leaves alone                              *)
(***************************************************************************)
FrameCollections == {"customers", "suppliers", "sales", "quantities"}
FrameCreates == {"createCustomer", "createSupplier", "createSale", "createQuantity"}
FrameUpdates == {"updateCustomer", "updateSupplier", "updateSale", "updateQuantity"}
FrameDeletes == {"deleteCustomer", "deleteSupplier", "deleteSale", "deleteQuantity"}

\* the records of `before` other than `oids` are in `after`, as they were
Kept(before, after, oids) ==
    \A o \in (DOMAIN before) \ oids : o \in DOMAIN after /\ after[o] = before[o]

Writes(c) == calls[c] = NoCall /\ calls'[c] # NoCall /\ calls'[c].at = "reread"

\* caller c's update is answered on this step
Rereads(c) == calls[c] # NoCall /\ calls[c].at = "reread" /\ calls'[c] = NoCall

C26_ReturnsOwnWrite ==
    (request.op = "update" /\ response.status = 200) =>
        response.body.data =
            Service_fromDocument(request.coll,
                                 Spread(Service_document(request.coll, request.data, clock),
                                        [_id |-> request.id.n]),
                                 clock)

\* C27: a list or search response never carries more records than its
\* totalCount, whatever creates and deletes overlap with its two queries.
C27_DataWithinCount ==
    (request.op = "list" /\ response.status = 200) =>
        Len(response.body.data) <= response.body.pagination.totalCount

(***************************************************************************)
(* Claims about the sales service                                          *)
(***************************************************************************)
StoredSales == { store.sales[o] : o \in DOMAIN store.sales }

\* C1: every sale document in the store has paidAmount >= totalAmount, an
\* underpaid createSale or updateSale having been rejected
C1_NoUnderpaidSale ==
    \A doc \in StoredSales : doc.paidAmount >= doc.totalAmount

AggregateFields == {"subTotal", "totalAmount", "changeAmount"}
WithoutAggregates(data) == [k \in (DOMAIN data) \ AggregateFields |-> data[k]]

\* what a createSale or updateSale call comes to: rejected, or accepted with the
\* aggregates it writes under the id
Outcome(r, n) ==
    IF r.threw THEN [accepted |-> FALSE]
    ELSE [accepted |-> TRUE, subTotal |-> r.coll[n].subTotal,
          totalAmount |-> r.coll[n].totalAmount, changeAmount |-> r.coll[n].changeAmount]

\* C2: in every state, two createSale calls (and two updateSale calls on the same
\* id) whose inputs differ only in subTotal, totalAmount and changeAmount have the
\* same outcome
C2_AggregatesIgnored ==
    \A d1, d2 \in SalePayloads :
        WithoutAggregates(d1) = WithoutAggregates(d2) =>
            /\ Outcome(createSale(store.sales, nextOid, isConnected, d1, clock), nextOid)
               = Outcome(createSale(store.sales, nextOid, isConnected, d2, clock), nextOid)
            /\ \A id \in IdArgs :
                   Outcome(updateSale(store.sales, isConnected, id, d1, clock), id.n)
                   = Outcome(updateSale(store.sales, isConnected, id, d2, clock), id.n)

Before(log, first, second) ==
    \A j \in DOMAIN log : log[j] = second => \E i \in 1..(j - 1) : log[i] = first

\* C5: a createSale or updateSale call runs construct, recalculate, validate,
\* persist in that order, and what it accepts passes validate() on the
\* recalculated totals
C5_LifecycleOrder ==
    request.op \in {"createSale", "updateSale"} =>
        /\ Before(steps, "create", "calculateTotals")
        /\ Before(steps, "calculateTotals", "validate")
        /\ Before(steps, "validate", "persist")
        /\ response.status \in {200, 201} =>
               Sale_validate(calculateTotals(Sale_create(request.data, clock))).isValid

\* C6: every sale document in the store has subTotal, taxAmount, discountAmount,
\* totalAmount and paidAmount all >= 0
C6_MoneyNonNegative ==
    \A doc \in StoredSales :
        /\ doc.subTotal >= 0
        /\ doc.taxAmount >= 0
        /\ doc.discountAmount >= 0
        /\ doc.totalAmount >= 0
        /\ doc.paidAmount >= 0

\* C7: every item of every sale document in the store has a product reference, a
\* quantity > 0 and a unit price >= 0
C7_ItemsWellFormed ==
    \A doc \in StoredSales :
        \A i \in DOMAIN doc.saleItems :
            /\ Has(doc.saleItems[i], "productId")
            /\ Has(doc.saleItems[i], "quantity") /\ doc.saleItems[i].quantity > 0
            /\ Has(doc.saleItems[i], "unitPrice") /\ doc.saleItems[i].unitPrice >= 0

\* C8: no two sale documents in the store have the same saleId
C8_SaleIdUnique ==
    \A o1, o2 \in DOMAIN store.sales :
        store.sales[o1].saleId = store.sales[o2].saleId => o1 = o2

(***************************************************************************)
(* Claims about the create and update operations of the services           *)
(***************************************************************************)
CreateOps == {"createSale", "createCustomer", "createSupplier", "createProduct",
              "createQuantity"}
UpdateOps == {"updateSale", "updateCustomer", "updateSupplier"}

\* validate() of the entity built from the payload of a request
BuiltValidation(req, now) ==
    CASE req.coll = "sales"      -> Sale_validate(Sale_create(req.data, now))
      [] req.coll = "customers"  -> Customer_validate(Customer_create(req.data, now))
      [] req.coll = "suppliers"  -> Supplier_validate(Supplier_create(req.data, now))
      [] req.coll = "products"   -> Product_validate(Product_create(req.data, now))
      [] req.coll = "quantities" -> Quantity_validate(Quantity_create(req.data, now))

\* the document derived from the payload of a request, and from nothing else
DerivedDocument(req, now) ==
    CASE req.coll = "sales" ->
             Sale_toDocument(calculateTotals(Sale_create(req.data, now)))
      [] req.coll = "customers" -> Customer_toDocument(Customer_create(req.data, now))
      [] req.coll = "suppliers" -> Supplier_toDocument(Supplier_create(req.data, now))

ValidationFailure(v) == Answer(400, Failure("Validation failed: " \o Join(v.errors)))

\* C9: a create whose entity fails validate() is answered 400 with the single
\* error 'Validation failed: ' + the messages joined by ', ' and leaves the store
\* as it was; a create whose entity passes inserts exactly one document, under a
\* fresh id, and is answered {success: true, data, message} with data.id that id
C9_CreateContract ==
    [][ request'.op \in CreateOps =>
            LET c == request'.coll
                v == BuiltValidation(request', clock)
            IN  IF ~v.isValid
                THEN /\ response' = ValidationFailure(v)
                     /\ store' = store
                ELSE /\ nextOid \notin DOMAIN store[c]
                     /\ DOMAIN store'[c] = DOMAIN store[c] \cup {nextOid}
                     /\ \A o \in DOMAIN store[c] : store'[c][o] = store[c][o]
                     /\ \A other \in Collections \ {c} : store'[other] = store[other]
                     /\ response'.status = 201
                     /\ DOMAIN response'.body = {"success", "data", "message"}
                     /\ response'.body.success = TRUE
                     /\ response'.body.data.id = nextOid ]_vars

\* a createCustomer answered with two violations joined, a customer already stored
C9_Witness ==
    /\ request.op = "createCustomer"
    /\ response = Answer(400, Failure("Validation failed: Contact is required, Invalid email format"))
    /\ store.customers # <<>>

\* the payload lacks a field the entity requires
LacksRequired(req) ==
    CASE req.coll = "sales"     -> ~Has(req.data, "saleId") \/ ~Has(req.data, "saleItems")
      [] req.coll = "customers" -> ~Has(req.data, "contact")
      [] req.coll = "suppliers" -> ~Has(req.data, "name") \/ ~Has(req.data, "contact")

AllUpdateOps == {"updateSale", "updateCustomer", "updateSupplier", "updateQuantity",
                 "updateProduct"}

\* the records the write of an update request matches
WriteMatches(req, colls) ==
    IF req.op = "updateProduct"
    THEN { o \in DOMAIN colls[req.coll] : ProductMatches(colls[req.coll][o], req.id) }
    ELSE { o \in DOMAIN colls[req.coll] : MatchesId(o, req.id) }

\* C11: on a connected gateway an update with a valid payload is answered
\* '<Entity> not found' (404) exactly when its write matched no record, the store
\* is then unchanged, and it is answered with success whenever the write matched
C11_NotFoundIffNoMatch ==
    [][ (request'.op \in AllUpdateOps /\ isConnected
           /\ BuiltValidation(request', clock).isValid) =>
            LET matched == WriteMatches(request', store) # {}
            IN  /\ response'.status = 404 <=> ~matched
                /\ response'.status = 404 => store' = store
                /\ matched => response'.status = 200 /\ response'.body.success ]_vars

\* the id names the record: it is the record's ObjectId, or the text of it
Names(id, oid) == id.n = oid

\* C12: on a connected gateway a delete with id i removes the record with that id
\* and reports success whenever there is one, and reports '<Entity> not found'
\* (404) exactly when there is none; a read of an id no record has is not found
C12_DeleteUnconditional ==
    [][ (request'.op \in {"deleteSale", "deleteCustomer"} /\ isConnected) =>
            LET c == request'.coll
                named == { o \in DOMAIN store[c] : Names(request'.id, o) }
            IN  /\ named # {} =>
                       /\ response'.status = 200
                       /\ response'.body.success
                       /\ DOMAIN store'[c] = (DOMAIN store[c]) \ named
                       /\ getSaleById(store'.sales, TRUE, request'.id, clock).threw
                       /\ getCustomerById(store'.customers, TRUE, request'.id, clock).threw
                /\ named = {} <=> response'.status = 404
                /\ \A o \in DOMAIN store'[c] : store'[c][o] = store[c][o] ]_vars

\* C13: on a connected gateway a read by id or by legacy id is answered
\* {success: true, data} with the record the identifier names when there is one,
\* and '<Entity> not found' (404) exactly when there is none
C13_ReadByIdentifier ==
    (isConnected /\ request.op \in {"getSaleById", "getCustomerById",
                                    "getSaleByMysqlId", "getCustomerByMysqlId"}) =>
        LET c == request.coll
            named == IF request.op \in {"getSaleById", "getCustomerById"}
                     THEN { o \in DOMAIN store[c] : Names(request.id, o) }
                     ELSE { o \in DOMAIN store[c] : store[c][o].mysqlId = request.mysqlId }
        IN  /\ named # {} =>
                   /\ response.status = 200
                   /\ response.body.success
                   /\ response.body.data.id \in named
            /\ named = {} <=> response.status = 404

NotFoundMessages ==
    {"Sale not found", "Customer not found", "Supplier not found", "Product not found",
     "Quantity not found"}

\* C14: a request that failed is answered 404 when the error is a not-found, 500
\* when the store could not be reached, and 400 otherwise (a validation failure)
C14_StatusByErrorKind ==
    (request.op # "none" /\ response.status # 200 /\ response.status # 201) =>
        response.status =
            IF response.body.error \in NotFoundMessages THEN 404
            ELSE IF response.body.error = MsgNotConnected THEN 500
            ELSE 400

(***************************************************************************)
(* Claims about lists and analytics                                        *)
(***************************************************************************)
ListOps == {"getAllSales", "searchCustomers"}
Listed == request.op \in ListOps /\ response.status = 200
SalesListed == request.op = "getAllSales" /\ response.status = 200

\* q = ceil(a / b), for b # 0
IsCeil(q, a, b) ==
    IF b > 0 THEN q * b >= a /\ (q - 1) * b < a
    ELSE q * b <= a /\ (q - 1) * b > a

\* C15: every list answer has totalPages = ceil(totalCount / limit), and never
\* more items than limit
C15_PageWithinLimit ==
    Listed =>
        LET p == response.body.pagination
        IN  /\ IsCeil(p.totalPages, p.totalCount, p.limit)
            /\ Len(response.body.data) <= p.limit

\* the ids of the records a list answer carries, in order
IdsOf(data) == [i \in DOMAIN data |-> data[i].id]

\* positions first+1 .. first+size of the sequence, as far as it reaches
Slice(order, first, size) ==
    LET left == Len(order) - first
        n    == IF size < left THEN size ELSE left
    IN  [i \in 1..(IF n > 0 THEN n ELSE 0) |-> order[first + i]]

\* C16: a list answer for page p and limit l carries exactly the records at
\* positions (p-1)*l .. (p-1)*l + l - 1 of the filtered sales in sort order
C16_PageIsSlice ==
    SalesListed =>
        LET options == ListOptions(request.query)
            p       == response.body.pagination
        IN  \E order \in SortedOrders(store.sales, SaleFilter(options),
                                      options.sortBy, options.sortOrder) :
                IdsOf(response.body.data) = Slice(order, (p.page - 1) * p.limit, p.limit)

\* the filter a list or search request is to select by
FilterOf(req) ==
    IF req.op = "searchCustomers"
    THEN SearchFilter(req.text, {"contact", "email", "saleId"})
    ELSE SaleFilter(ListOptions(req.query))

\* C17: the count query of a list or search request has the filter of its data
\* query, and totalCount is the number of stored records that filter selects,
\* whatever the page and the limit; the pagination of a search, as of a list, is
\* {page, limit, totalCount, totalPages}
C17_CountUsesFilter ==
    Listed =>
        /\ Len(steps) = 2
        /\ steps[1].call = "find"
        /\ steps[2].call = "countDocuments"
        /\ steps[2].filter = steps[1].filter
        /\ steps[1].filter = FilterOf(request)
        /\ response.body.pagination.totalCount =
               Cardinality({ o \in DOMAIN store[request.coll] :
                               Matches(store[request.coll][o], steps[1].filter) })
        /\ DOMAIN response.body.pagination = {"page", "limit", "totalCount", "totalPages"}

\* a filtered list cut to a page: two sales of customer 7 counted, one delivered
C17_Witness ==
    /\ SalesListed
    /\ Has(request.query, "customerId")
    /\ Has(request.query, "limit")
    /\ Cardinality(DOMAIN store.sales) = 3
    /\ response.body.pagination.totalCount = 2
    /\ Len(response.body.data) = 1

AllowedSortFields == {"timestamp", "saleDate", "totalAmount"}

\* C18: a list request that reaches the store has page >= 1, 1 <= limit <= 100,
\* a sort field among the allowed ones and a sort order of 1 or -1; what the
\* caller left out is page 1, limit 10, order -1
C18_OptionsInDomain ==
    (request.op = "getAllSales" /\ steps # <<>>) =>
        /\ steps[1].limit \in 1..100
        /\ steps[1].skip >= 0
        /\ steps[1].sort.by \in AllowedSortFields
        /\ steps[1].sort.order \in {1, -1}
        /\ ~Has(request.query, "limit") => steps[1].limit = 10
        /\ ~Has(request.query, "page") => steps[1].skip = 0
        /\ ~Has(request.query, "sortOrder") => steps[1].sort.order = -1

\* the instant a stored saleDate denotes, whichever way it is stored
InstantOf(saleDate) == saleDate.t

\* the sales a request for startDate / endDate / customerId asks for
AskedFor(coll, options) ==
    { o \in DOMAIN coll :
        /\ Has(options, "startDate") => InstantOf(coll[o].saleDate) >= options.startDate.t
        /\ Has(options, "endDate") => InstantOf(coll[o].saleDate) <= options.endDate.t
        /\ Has(options, "customerId") => coll[o].customerId = options.customerId }

\* C19: getAllSales with startDate / endDate / customerId selects exactly the
\* stored sales whose saleDate lies in the inclusive range and whose customerId
\* is equal, whether the saleDate was supplied to createSale or defaulted
C19_FilterSelectsRange ==
    SalesListed =>
        LET asked == AskedFor(store.sales, ListOptions(request.query))
        IN  /\ response.body.pagination.totalCount = Cardinality(asked)
            /\ \A i \in DOMAIN response.body.data : response.body.data[i].id \in asked

\* the sales the date filter of the list selects for the same startDate / endDate
ListedFor(coll, query) ==
    Selected(coll, LAMBDA doc : Matches(doc, SaleFilter(AnalyticsOptions(query))))

\* C20: over a non-empty matching set getSalesAnalytics reports totalSales = the
\* number of sales the date filter of getAllSales selects, totalRevenue = the sum
\* of their totalAmount, totalItemsSold = the sum of their numbers of line items,
\* and averageSaleAmount = totalRevenue / totalSales
C20_AnalyticsSums ==
    (request.op = "getSalesAnalytics" /\ ListedFor(store.sales, request.query) # {}) =>
        LET matched == ListedFor(store.sales, request.query)
            d       == response.body.data
        IN  /\ response.status = 200
            /\ d.totalSales = Cardinality(matched)
            /\ d.totalSales =
                   getAllSales(store.sales, TRUE, AnalyticsOptions(request.query), <<>>,
                               clock).result.pagination.totalCount
            /\ d.totalRevenue = SumOf([o \in matched |-> store.sales[o].totalAmount])
            /\ d.totalItemsSold = SumOf([o \in matched |-> Len(store.sales[o].saleItems)])
            /\ d.averageSaleAmount.num * d.totalSales
                   = d.totalRevenue * d.averageSaleAmount.den

\* analytics of a closed range that leaves a later sale out: two sales of 53 and
\* 103 with one and two line items
C20_Witness ==
    /\ request.op = "getSalesAnalytics"
    /\ Has(request.query, "startDate")
    /\ Has(request.query, "endDate")
    /\ Cardinality(DOMAIN store.sales) = 3
    /\ response.status = 200
    /\ response.body.data.totalSales = 2
    /\ response.body.data.totalRevenue = 156
    /\ response.body.data.totalItemsSold = 3

\* C21: when no stored sale matches the date range (an empty store included),
\* getSalesAnalytics succeeds and its data carries totalSales, totalRevenue,
\* totalItemsSold and averageSaleAmount, all four present and all four zero
C21_EmptyAnalytics ==
    (request.op = "getSalesAnalytics" /\ ListedFor(store.sales, request.query) = {}) =>
        /\ response.status = 200
        /\ response.body.success
        /\ {"totalSales", "totalRevenue", "totalItemsSold", "averageSaleAmount"}
               \subseteq DOMAIN response.body.data
        /\ response.body.data.totalSales = 0
        /\ response.body.data.totalRevenue = 0
        /\ response.body.data.totalItemsSold = 0
        /\ response.body.data.averageSaleAmount.num = 0
        /\ response.body.data.averageSaleAmount.den # 0

\* analytics of a range that misses all three sales of the store
C21_Witness ==
    /\ request.op = "getSalesAnalytics"
    /\ Has(request.query, "startDate")
    /\ Cardinality(DOMAIN store.sales) = 3
    /\ ListedFor(store.sales, request.query) = {}
    /\ response.status = 200
    /\ response.body.data.totalSales = 0

(***************************************************************************)
(* Claims about the Sale entity                                            *)
(***************************************************************************)
\* the sum over the items of the item's subTotal, quantity x unitPrice standing in
\* for an item that carries none
RECURSIVE SumOfItemSubTotals(_)
SumOfItemSubTotals(items) ==
    IF items = <<>> THEN 0
    ELSE (IF Has(Head(items), "subTotal")
          THEN Head(items).subTotal
          ELSE Head(items).quantity * Head(items).unitPrice)
         + SumOfItemSubTotals(Tail(items))

\* the three totals equations on a Sale or a sale document
TotalsEquations(s) ==
    /\ s.subTotal = SumOfItemSubTotals(s.saleItems)
    /\ s.totalAmount = s.subTotal + s.taxAmount - s.discountAmount
    /\ s.changeAmount = s.paidAmount - s.totalAmount

\* C3: every Sale right after calculateTotals() has subTotal = the sum of its items'
\* subTotal (quantity x unitPrice for an item that carries none), totalAmount =
\* subTotal + taxAmount - discountAmount and changeAmount = paidAmount - totalAmount,
\* whatever aggregates the caller supplied.
C3_TotalsAfterCalculate ==
    steps = <<"calculateTotals">> => TotalsEquations(sale)

\* C22: for every Customer, Supplier and Sale instance, fromDocument(toDocument(e))
\* has the value of e in every attribute, the id included
C22_RoundTrip ==
    [][ steps' = <<"roundTrip">> => sale' = sale ]_vars

\* C25: an addItem leaves the earlier items as they were and puts the added item
\* behind them, with subTotal = quantity x unitPrice, and the Sale then satisfies
\* the totals equations for its items, taxAmount, discountAmount and paidAmount
C25_AddItemTotals ==
    [][ steps' = <<"addItem">> =>
            /\ Len(sale'.saleItems) = Len(sale.saleItems) + 1
            /\ SubSeq(sale'.saleItems, 1, Len(sale.saleItems)) = sale.saleItems
            /\ LET added == sale'.saleItems[Len(sale'.saleItems)]
               IN  added.subTotal = added.quantity * added.unitPrice
            /\ TotalsEquations(sale') ]_vars

\* the messages of the violated rules, in the order of the four rules
ViolatedRules(s) ==
    LET rules == << [violated |-> s.saleId = "" \/ IsBlank(s.saleId), msg |-> MsgSaleId],
                    [violated |-> Len(s.saleItems) = 0,               msg |-> MsgNoItems],
                    [violated |-> s.totalAmount < 0,                  msg |-> MsgNegativeTotal],
                    [violated |-> s.paidAmount < s.totalAmount,       msg |-> MsgUnderpaid] >>
        hit == SelectSeq(rules, LAMBDA r : r.violated)
    IN  [i \in 1..Len(hit) |-> hit[i].msg]

\* C4: validate() answers isValid exactly when no rule is violated, and its errors
\* list holds the message of every violated rule, in the order saleId, items,
\* negative total, underpayment; no items and underpayment always fail.
C4_ValidateAccumulates ==
    validation # NoValidation =>
        /\ validation.errors = ViolatedRules(sale)
        /\ validation.isValid <=> (ViolatedRules(sale) = <<>>)
        /\ Len(sale.saleItems) = 0 =>
              ~validation.isValid /\ \E i \in DOMAIN validation.errors :
                                         validation.errors[i] = MsgNoItems
        /\ sale.paidAmount < sale.totalAmount =>
              ~validation.isValid /\ \E i \in DOMAIN validation.errors :
                                         validation.errors[i] = MsgUnderpaid

\* a validate() that found all four rules violated at once
C4_Witness ==
    /\ validation # NoValidation
    /\ validation.errors = <<MsgSaleId, MsgNoItems, MsgNegativeTotal, MsgUnderpaid>>

====
